---- MODULE Spec2Model ----
\* A model of webexbot's dialog controller (src/dialog_controller.go): the
\* control loop that owns the activeDialogs registry, and the dialog task
\* goroutines it starts, preempts and removes.
\*
\* A session is numbered by the order of its creation; its context, its
\* event channel and its cancelFunc are the objects of that number. The
\* control loop's handlers are atomic steps (the loop is one goroutine); a
\* dialog task goroutine takes its steps between them: Talk ending together
\* with the deferred function's select, then cancelFunc(), then the send on
\* the unbuffered completionSignals, which is a rendezvous with the loop.
\* What Talk does with the events in its channel changes nothing the
\* controller reads, and is not a step of the specification Spec.
\*
\* FairSpec is Spec with the fairness of the scheduler and of run's select.
\* SpecWedged starts from a session whose channel is (nearly) full, SpecListen
\* adds messenger.Listen (src/unnamed/part_000) reading the session channels,
\* and SpecBot adds Bot.ListenAndTalk (src/bot.go) around run. SpecSessions is
\* the control loop, the workers and their Listen calls running together,
\* without the cancellation of the context passed to run.
\*
\* Four parts of the program are modelled on their own, each from Init:
\* SpecMessenger is one session's messenger under Send and OfferChoice, fed
\* with the events the webhook handler prepares (src/webex_event_producer.go);
\* SpecProvider is the combined dialog task provider (src/dialog_task.go);
\* SpecClient is the Webex API client (src/internal/webexapi/v1); SpecWebhook
\* is the webhook handler (src/webex_event_producer.go): one ServeHTTP call
\* after another is followed through authentication, decoding, preparation,
\* filters and enqueue, while the calls of other requests fill the outgoing
\* channel and the controller drains it.
EXTENDS Integers, Sequences, FiniteSets, TLC

\* ---------------------------------------------------------------- bounds
MaxSessions == 3      \* sessions (worker goroutines) ever started
MaxEvents == 3        \* events ever taken from incomingEvents
MaxRequests == 2      \* ServeHTTP calls followed, one after another
MaxFilters == 2       \* event filters of the webhook handler

\* ------------------------------------------------------ program constants
eventChanCapacity == 16   \* make(chan Event, 16)
eventChannelBufferSize == 3   \* make(chan Event, eventChannelBufferSize)

\* ------------------------------------------------------------ value sets
PersonIds == {"U1", "U2"}
RoomIds == {"R1"}

\* dialogKey{personId, roomId}
dialogKey == [personId : PersonIds, roomId : RoomIds]

Sessions == 1..MaxSessions

\* the nil channel / nil context / nil cancelFunc of a zero dialogReferences
Nil == 0

\* dialogReferences{context, eventChan, cancelFunc}: each field refers to the
\* objects of one session, named by the session's number
dialogReferences == [context : Sessions, eventChan : Sessions, cancelFunc : Sessions]

zeroDialogReferences == [context |-> Nil, eventChan |-> Nil, cancelFunc |-> Nil]

\* the references startDialog stores for session s
refsOf(s) == [context |-> s, eventChan |-> s, cancelFunc |-> s]

\* Event: the fields the controller reads, the provider's verdict on it
\* (triggers: ProvideFor(event) # nil) and its Resource, which tells one event
\* from another; NoResource where the events are not told apart
Event(p, r, t, res) == [InitiatorId |-> p, RoomId |-> r, triggers |-> t, Resource |-> res]

NoResource == 0

\* Event{}: what a receive from a closed, drained channel yields
zeroEvent == Event("", "", FALSE, NoResource)

\* how Talk ended: it returned (err is its result) or it panicked
TalkOutcomes == {"returned", "panicked"}

\* the values of completionSignal.executionError: nil, the error Talk returned,
\* the error the deferred function makes of a recovered panic
executionErrors == {"nil", "error", "recovered"}

VARIABLES
    activeDialogs,   \* c.activeDialogs: dialogKey -> dialogReferences (partial)
    ctxDone,         \* per session: its context (from context.WithCancel) is done
    cancelledBy,     \* per session: who cancelled the context first
    chanClosed,      \* per session: eventChan is closed
    closes,          \* per session: number of close(eventChan) calls made
    eventChan,       \* per session: the events buffered in eventChan
    pc,              \* per session: position of its dialogTaskRoutine
    talkResult,      \* per session: how Talk ended
    sessionKey,      \* per session: messenger.DialogInfo() key
    sent,            \* per session: completion signals it has sent
    lastSignal,      \* the completion signal the control loop received last
    nextSession,     \* number of the next session startDialog creates
    nEvents,         \* events taken from incomingEvents so far
    outerDone,       \* the context passed to run is done
    ctl,             \* control loop: "running", "returned" or "panicked"
    crashedBy,       \* the goroutine whose unrecovered panic terminated the process
    lastPush,        \* what the most recent pushEvent call found and did, and
                     \* what the calls so far have enqueued and dropped
    listen,          \* per session: the Listen call of its messenger
    bot,             \* Bot.ListenAndTalk: the producer, the derived context's cause
    messenger,       \* one session's messenger: its channel, its Send and OfferChoice calls
    client,          \* the Webex API client: the call it made last and what it returned
    provider,        \* a combined dialog task provider and its last ProvideFor call
    webhook          \* the webhook handler, its outgoing channel and the requests it serves

vars == <<activeDialogs, ctxDone, cancelledBy, chanClosed, closes, eventChan, pc,
          talkResult, sessionKey, sent, lastSignal, nextSession, nEvents, outerDone,
          ctl, crashedBy, lastPush, listen, bot, messenger, client, provider, webhook>>

NoKey == [personId |-> "", roomId |-> ""]
NoSignal == [worker |-> Nil, key |-> NoKey, executionError |-> "none"]

crashed == crashedBy # "none"

\* a messenger whose Listen has not been called. Of a Listen call: where it
\* is, what it returned, and of the event it received last the Resource (got,
\* empty before the first) and the number of Send calls made for it
NoListen == [at |-> "none", result |-> "none", sends |-> 0, got |-> <<>>]

\* ListenAndTalk with its producer running and its context not cancelled
NoBot == [producer |-> "running", cause |-> "none", returned |-> "none"]
NoPush == [closed |-> FALSE, outcome |-> "none", fresh |-> FALSE, timeouts |-> 0,
           pushed |-> [s \in Sessions |-> <<>>]]

\* a messenger none of whose methods has been called. call and at: the method
\* the task called last and where that call is; creates: the CreateMessage
\* calls it made; consumed: it received an event; optionId and err: what it
\* returned
NoMessenger ==
    [incomingEvents |-> <<>>, closed |-> FALSE, ctxDone |-> FALSE, call |-> "none",
     at |-> "idle", listen |-> NoListen, options |-> <<>>, optionId |-> "",
     err |-> "nil", creates |-> 0, consumed |-> FALSE]

\* DialogTask(nil)
NilTask == "nil"

\* no combined provider yet. Of the last ProvideFor call: the event asked
\* for, the task returned and the number of sub-providers called
NoProvider ==
    [subproviders |-> <<>>, built |-> FALSE, asked |-> "none", triggeredTask |-> NilTask,
     consulted |-> 0]

\* a ServeHTTP call that has not begun. at: where the call is; StatusCode:
\* the status written; event: the event prepared (<<>> when none); ctxDone:
\* request.Context() is done; called: the filters called for the event;
\* placed: the sends of the event that completed; slept: enqueue has taken
\* its default case
NoRequest ==
    [at |-> "idle", StatusCode |-> 0, event |-> <<>>, ctxDone |-> FALSE,
     called |-> 0, placed |-> 0, slept |-> FALSE]

\* no webhook handler yet. served: the ServeHTTP calls followed so far, of
\* which request is the last
NoWebhook ==
    [built |-> FALSE, webhookSecret |-> "", filters |-> <<>>, outgoingEvents |-> <<>>,
     served |-> 0, request |-> NoRequest]

\* what httpClient.Do gives: an error, or a response with a status code and a
\* body that decodes as JSON or does not
NoResponse == [done |-> FALSE, StatusCode |-> 0, decodes |-> FALSE]

\* the three values a client method returns: whether the result and the
\* error are non-nil, and the StatusCode of the WebexError (0: nil)
Returned(result, webexErr, err) == [result |-> result, webexErr |-> webexErr, err |-> err]

\* a client that has made no call. requests: the HTTP requests it has sent
NoClient ==
    [calls |-> 0, requests |-> 0, method |-> "none", response |-> NoResponse,
     returned |-> Returned(FALSE, 0, FALSE)]

\* ------------------------------------------------ controller state record
\* The part of the state a handler of the control loop reads and writes,
\* gathered in one record so that a handler's calls compose in sequence.
Cur ==
    [activeDialogs |-> activeDialogs, ctxDone |-> ctxDone, cancelledBy |-> cancelledBy,
     chanClosed |-> chanClosed, closes |-> closes, eventChan |-> eventChan, pc |-> pc,
     sessionKey |-> sessionKey, nextSession |-> nextSession, lastPush |-> lastPush,
     panicked |-> FALSE]

Install(st) ==
    /\ activeDialogs' = st.activeDialogs
    /\ ctxDone' = st.ctxDone
    /\ cancelledBy' = st.cancelledBy
    /\ chanClosed' = st.chanClosed
    /\ closes' = st.closes
    /\ eventChan' = st.eventChan
    /\ pc' = st.pc
    /\ sessionKey' = st.sessionKey
    /\ nextSession' = st.nextSession
    /\ lastPush' = st.lastPush

\* c.activeDialogs[key]: the zero value when the key is missing
lookup(st, key) ==
    IF key \in DOMAIN st.activeDialogs THEN st.activeDialogs[key] ELSE zeroDialogReferences

\* cancelFunc(): the first call marks the context done, later calls do nothing
cancel(st, s, who) ==
    IF st.ctxDone[s] THEN st
    ELSE [st EXCEPT !.ctxDone[s] = TRUE, !.cancelledBy[s] = who]

\* close(ch): panics on a nil channel and on a channel that is already closed
closeChan(st, ch) ==
    IF ch = Nil THEN [st EXCEPT !.panicked = TRUE]
    ELSE IF st.chanClosed[ch] THEN [st EXCEPT !.closes[ch] = @ + 1, !.panicked = TRUE]
    ELSE [st EXCEPT !.closes[ch] = @ + 1, !.chanClosed[ch] = TRUE]

isDialogActive(st, key) == key \in DOMAIN st.activeDialogs

stopDialog(st, key) ==
    LET dialog == lookup(st, key) IN
    IF dialog.context = Nil THEN [st EXCEPT !.panicked = TRUE]
    ELSE IF st.ctxDone[dialog.context] THEN st
    ELSE closeChan(cancel(st, dialog.cancelFunc, "router"), dialog.eventChan)

RECURSIVE stopDialogs(_, _)
stopDialogs(st, keys) ==
    IF keys = {} \/ st.panicked THEN st
    ELSE LET key == CHOOSE k \in keys : TRUE
         IN stopDialogs(stopDialog(st, key), keys \ {key})

stopAllDialogs(st) == stopDialogs([st EXCEPT !.panicked = FALSE], DOMAIN st.activeDialogs)

\* startDialog starting no goroutine under a parent context that is done
startDialogIdleWhenDone(st, parentDone, initialEvent) ==
    LET s == st.nextSession
        key == [personId |-> initialEvent.InitiatorId, roomId |-> initialEvent.RoomId]
        refs == [context |-> s, eventChan |-> s, cancelFunc |-> s]
    IN [st EXCEPT
          !.ctxDone[s] = parentDone,
          !.cancelledBy[s] = IF parentDone THEN "outer" ELSE "none",
          !.eventChan[s] = <<>>,
          !.pc[s] = IF parentDone THEN "unborn" ELSE "talk",
          !.sessionKey[s] = key,
          !.nextSession = s + 1,
          !.activeDialogs = [k \in DOMAIN st.activeDialogs \cup {key} |->
                                 IF k = key THEN refs ELSE st.activeDialogs[k]]]

startDialog(st, parentDone, initialEvent) ==
    LET s == st.nextSession
        key == [personId |-> initialEvent.InitiatorId, roomId |-> initialEvent.RoomId]
        refs == [context |-> s, eventChan |-> s, cancelFunc |-> s]
    IN [st EXCEPT
          !.ctxDone[s] = parentDone,
          !.cancelledBy[s] = IF parentDone THEN "outer" ELSE "none",
          !.eventChan[s] = <<>>,
          !.pc[s] = "talk",
          !.sessionKey[s] = key,
          !.nextSession = s + 1,
          !.activeDialogs = [k \in DOMAIN st.activeDialogs \cup {key} |->
                                 IF k = key THEN refs ELSE st.activeDialogs[k]]]

\* pushEvent whose timeout case also cancels the session's context
pushEventCancelOnTimeout(st, key, event, fresh) ==
    LET dialog == lookup(st, key)
        ch == dialog.eventChan
        closed == ch # Nil /\ st.chanClosed[ch]
        log(o) == [st.lastPush EXCEPT
                      !.closed = closed, !.outcome = o, !.fresh = fresh,
                      !.timeouts = IF o = "timeout" THEN @ + 1 ELSE @,
                      !.pushed = IF o = "pushed" /\ event.Resource # NoResource
                                 THEN [@ EXCEPT ![ch] = Append(@, event.Resource)] ELSE @]
        canSend == ch # Nil /\ ~closed /\ Len(st.eventChan[ch]) < eventChanCapacity
        isDone == dialog.context # Nil /\ st.ctxDone[dialog.context]
    IN  {[st EXCEPT !.eventChan[ch] = Append(@, event), !.lastPush = log("pushed")] :
            x \in IF canSend THEN {1} ELSE {}}
        \cup {[st EXCEPT !.panicked = TRUE, !.lastPush = log("panic")] :
            x \in IF closed THEN {1} ELSE {}}
        \cup {[st EXCEPT !.lastPush = log("dialogDone")] :
            x \in IF isDone THEN {1} ELSE {}}
        \cup {[cancel(st, dialog.cancelFunc, "router") EXCEPT !.lastPush = log("timeout")] :
            x \in IF ~canSend /\ ~closed /\ ~isDone /\ ch # Nil THEN {1} ELSE {}}

\* pushEvent without the timeout case: a send on a full channel whose session
\* is not done never completes
pushEventNoTimeout(st, key, event, fresh) ==
    LET dialog == lookup(st, key)
        ch == dialog.eventChan
        closed == ch # Nil /\ st.chanClosed[ch]
        log(o) == [st.lastPush EXCEPT
                      !.closed = closed, !.outcome = o, !.fresh = fresh,
                      !.pushed = IF o = "pushed" /\ event.Resource # NoResource
                                 THEN [@ EXCEPT ![ch] = Append(@, event.Resource)] ELSE @]
        canSend == ch # Nil /\ ~closed /\ Len(st.eventChan[ch]) < eventChanCapacity
        isDone == dialog.context # Nil /\ st.ctxDone[dialog.context]
    IN  {[st EXCEPT !.eventChan[ch] = Append(@, event), !.lastPush = log("pushed")] :
            x \in IF canSend THEN {1} ELSE {}}
        \cup {[st EXCEPT !.panicked = TRUE, !.lastPush = log("panic")] :
            x \in IF closed THEN {1} ELSE {}}
        \cup {[st EXCEPT !.lastPush = log("dialogDone")] :
            x \in IF isDone THEN {1} ELSE {}}

\* pushEvent on a channel without a capacity: the send is ready whenever the
\* channel is open
pushEventNoCapacity(st, key, event, fresh) ==
    LET dialog == lookup(st, key)
        ch == dialog.eventChan
        closed == ch # Nil /\ st.chanClosed[ch]
        log(o) == [st.lastPush EXCEPT
                      !.closed = closed, !.outcome = o, !.fresh = fresh,
                      !.pushed = IF o = "pushed" /\ event.Resource # NoResource
                                 THEN [@ EXCEPT ![ch] = Append(@, event.Resource)] ELSE @]
        canSend == ch # Nil /\ ~closed
        isDone == dialog.context # Nil /\ st.ctxDone[dialog.context]
    IN  {[st EXCEPT !.eventChan[ch] = Append(@, event), !.lastPush = log("pushed")] :
            x \in IF canSend THEN {1} ELSE {}}
        \cup {[st EXCEPT !.panicked = TRUE, !.lastPush = log("panic")] :
            x \in IF closed THEN {1} ELSE {}}
        \cup {[st EXCEPT !.lastPush = log("dialogDone")] :
            x \in IF isDone THEN {1} ELSE {}}

\* pushEvent's select: the set of states it can end in
pushEvent(st, key, event, fresh) ==
    LET dialog == lookup(st, key)
        ch == dialog.eventChan
        closed == ch # Nil /\ st.chanClosed[ch]
        log(o) == [st.lastPush EXCEPT
                      !.closed = closed, !.outcome = o, !.fresh = fresh,
                      !.timeouts = IF o = "timeout" THEN @ + 1 ELSE @,
                      !.pushed = IF o = "pushed" /\ event.Resource # NoResource
                                 THEN [@ EXCEPT ![ch] = Append(@, event.Resource)] ELSE @]
        canSend == ch # Nil /\ ~closed /\ Len(st.eventChan[ch]) < eventChanCapacity
        isDone == dialog.context # Nil /\ st.ctxDone[dialog.context]
    IN  {[st EXCEPT !.eventChan[ch] = Append(@, event), !.lastPush = log("pushed")] :
            x \in IF canSend THEN {1} ELSE {}}
        \cup {[st EXCEPT !.panicked = TRUE, !.lastPush = log("panic")] :
            x \in IF closed THEN {1} ELSE {}}
        \cup {[st EXCEPT !.lastPush = log("dialogDone")] :
            x \in IF isDone THEN {1} ELSE {}}
        \cup {[st EXCEPT !.lastPush = log("timeout")] :
            x \in IF ~canSend /\ ~closed /\ ~isDone THEN {1} ELSE {}}

\* processEvent without the fallthrough from stopDialog into startDialog: a
\* trigger for an active key stops the dialog and goes on to pushEvent
processEventNoRestart(st, parentDone, event) ==
    LET key == [personId |-> event.InitiatorId, roomId |-> event.RoomId]
        isActive == isDialogActive(st, key)
        triggered == event.triggers
        stopped == IF isActive /\ triggered THEN stopDialog(st, key) ELSE st
        started == IF triggered /\ ~isActive
                   THEN startDialog(stopped, parentDone, event) ELSE stopped
    IN  IF started.panicked THEN {started}
        ELSE IF triggered \/ isActive THEN pushEvent(started, key, event, triggered /\ ~isActive)
        ELSE {started}

\* processEvent that calls pushEvent for every event, active dialog or not
processEventPushAlways(st, parentDone, event) ==
    LET key == [personId |-> event.InitiatorId, roomId |-> event.RoomId]
        isActive == isDialogActive(st, key)
        triggered == event.triggers
        stopped == IF isActive /\ triggered THEN stopDialog(st, key) ELSE st
        started == IF triggered /\ ~stopped.panicked
                   THEN startDialog(stopped, parentDone, event) ELSE stopped
    IN  IF started.panicked THEN {started}
        ELSE pushEvent(started, key, event, triggered)

\* processEvent without the fallthrough from startDialog into pushEvent: the
\* event that starts a dialog is not pushed to it
processEventStartOnly(st, parentDone, event) ==
    LET key == [personId |-> event.InitiatorId, roomId |-> event.RoomId]
        isActive == isDialogActive(st, key)
        triggered == event.triggers
        stopped == IF isActive /\ triggered THEN stopDialog(st, key) ELSE st
        started == IF triggered /\ ~stopped.panicked
                   THEN startDialog(stopped, parentDone, event) ELSE stopped
    IN  IF started.panicked THEN {started}
        ELSE IF isActive /\ ~triggered THEN pushEvent(started, key, event, FALSE)
        ELSE {started}

processEvent(st, parentDone, event) ==
    LET key == [personId |-> event.InitiatorId, roomId |-> event.RoomId]
        isActive == isDialogActive(st, key)
        triggered == event.triggers
        stopped == IF isActive /\ triggered THEN stopDialog(st, key) ELSE st
        started == IF triggered /\ ~stopped.panicked
                   THEN startDialog(stopped, parentDone, event) ELSE stopped
    IN  IF started.panicked THEN {started}
        ELSE IF triggered \/ isActive THEN pushEvent(started, key, event, triggered)
        ELSE {started}

\* processCompletionSignal without the delete: the entry stays in the registry
processCompletionSignalNoDelete(st, signal) ==
    closeChan(st, lookup(st, signal.key).eventChan)

processCompletionSignal(st, signal) ==
    LET dialog == lookup(st, signal.key)
        closed == closeChan(st, dialog.eventChan)
    IN  IF closed.panicked THEN closed
        ELSE [closed EXCEPT !.activeDialogs =
                  [k \in DOMAIN st.activeDialogs \ {signal.key} |-> st.activeDialogs[k]]]

\* a panic in a handler unwinds through run: the deferred stopAllDialogs runs,
\* then the panic leaves run and terminates the process
unwind(st) == IF st.panicked THEN [stopAllDialogs(st) EXCEPT !.panicked = TRUE] ELSE st

\* ----------------------------------------------------------------- Init
Init ==
    /\ activeDialogs = << >>
    /\ ctxDone = [s \in Sessions |-> FALSE]
    /\ cancelledBy = [s \in Sessions |-> "none"]
    /\ chanClosed = [s \in Sessions |-> FALSE]
    /\ closes = [s \in Sessions |-> 0]
    /\ eventChan = [s \in Sessions |-> <<>>]
    /\ pc = [s \in Sessions |-> "unborn"]
    /\ talkResult = [s \in Sessions |-> "none"]
    /\ sessionKey = [s \in Sessions |-> NoKey]
    /\ sent = [s \in Sessions |-> 0]
    /\ lastSignal = NoSignal
    /\ nextSession = 1
    /\ nEvents = 0
    /\ outerDone = FALSE
    /\ ctl = "running"
    /\ crashedBy = "none"
    /\ lastPush = NoPush
    /\ listen = [s \in Sessions |-> NoListen]
    /\ bot = NoBot
    /\ messenger = NoMessenger
    /\ client = NoClient
    /\ provider = NoProvider
    /\ webhook = NoWebhook

\* --------------------------------------------------- control loop actions
\* what a handler leaves of the control loop: a panic ends it and the process
Settle(fin, after) ==
    \E st \in {fin} :
        /\ Install(st)
        /\ ctl' = IF st.panicked THEN "panicked" ELSE after
        /\ crashedBy' = IF st.panicked THEN "loop" ELSE crashedBy

\* run: case nextEvent := <-c.incomingEvents, the event being nextEvent
HandleEvent(nextEvent) ==
    /\ ~crashed /\ ctl = "running"
    /\ nEvents < MaxEvents
    /\ nextEvent.triggers => nextSession <= MaxSessions
    /\ \E st \in processEvent(Cur, outerDone, nextEvent) :
        Settle(unwind(st), ctl)
    /\ nEvents' = nEvents + 1
    /\ UNCHANGED <<talkResult, sent, lastSignal, outerDone, listen, bot,
                 messenger, client, provider, webhook>>

\* the events of two persons, not told apart by their Resource. The two
\* persons are interchangeable, so the first session is taken to be U1's.
ProcessEvent ==
    \E p \in PersonIds, r \in RoomIds, t \in BOOLEAN :
        /\ nextSession = 1 => p = "U1"
        /\ HandleEvent(Event(p, r, t, NoResource))

\* the errors the variable err can hold when the signal is built: Talk's
\* result (nil or an error) or the error made of the recovered panic
errOf(result) == IF result = "panicked" THEN {"recovered"} ELSE {"nil", "error"}

\* the signal a worker blocked on completionSignals is sending
signalOf(s, err) == [worker |-> s, key |-> sessionKey[s], executionError |-> err]

\* run: case nextSignal := <-c.completionSignals, the rendezvous with the
\* worker s whose send it completes
ProcessCompletionSignal(s) ==
    /\ ~crashed /\ ctl = "running"
    /\ pc[s] = "send"
    /\ \E err \in errOf(talkResult[s]) :
        \E fin \in {unwind(processCompletionSignal(Cur, signalOf(s, err)))} :
            /\ Settle([fin EXCEPT !.pc[s] = "done"], ctl)
            /\ lastSignal' = signalOf(s, err)
    /\ sent' = [sent EXCEPT ![s] = @ + 1]
    /\ UNCHANGED <<talkResult, nEvents, outerDone, listen, bot,
                 messenger, client, provider, webhook>>

\* run: case <-ctx.Done(): return, with the deferred stopAllDialogs
RunReturn ==
    /\ ~crashed /\ ctl = "running"
    /\ outerDone
    /\ Settle(stopAllDialogs(Cur), "returned")
    /\ UNCHANGED <<talkResult, sent, lastSignal, nEvents, outerDone, listen, bot,
                 messenger, client, provider, webhook>>

\* ------------------------------------------------------- worker actions
\* the deferred function with the cases of its select exchanged
deferredSelectInverted(s, result) ==
    IF ~ctxDone[s]
    THEN /\ pc' = [pc EXCEPT ![s] = "done"]
         /\ crashedBy' = IF result = "panicked" THEN "worker" ELSE crashedBy
    ELSE /\ pc' = [pc EXCEPT ![s] = "cancel"]
         /\ crashedBy' = crashedBy

\* the deferred function's select: return when ctx.Done() is readable (a
\* panic in flight is then not recovered and leaves the goroutine), else go
\* on to cancelFunc()
deferredSelect(s, result) ==
    IF ctxDone[s]
    THEN /\ pc' = [pc EXCEPT ![s] = "done"]
         /\ crashedBy' = IF result = "panicked" THEN "worker" ELSE crashedBy
    ELSE /\ pc' = [pc EXCEPT ![s] = "cancel"]
         /\ crashedBy' = crashedBy

\* err = task.Talk(ctx, messenger) returns or panics, and the deferred
\* function runs its select
TalkReturns(s) ==
    /\ ~crashed
    /\ pc[s] = "talk"
    /\ listen[s].at # "select"
    /\ \E o \in TalkOutcomes :
        /\ talkResult' = [talkResult EXCEPT ![s] = o]
        /\ deferredSelect(s, o)
    /\ UNCHANGED <<activeDialogs, ctxDone, cancelledBy, chanClosed, closes, eventChan,
                   sessionKey, sent, lastSignal, nextSession, nEvents, outerDone, ctl,
                   lastPush, listen, bot,
                 messenger, client, provider, webhook>>

\* DeferredCancel deleting the worker's own registry entry
DeferredCancelUnregistering(s) ==
    /\ ~crashed
    /\ pc[s] = "cancel"
    /\ ctxDone' = [ctxDone EXCEPT ![s] = TRUE]
    /\ cancelledBy' = [cancelledBy EXCEPT ![s] = IF ctxDone[s] THEN @ ELSE "self"]
    /\ pc' = [pc EXCEPT ![s] = "send"]
    /\ activeDialogs' = [k \in DOMAIN activeDialogs \ {sessionKey[s]} |-> activeDialogs[k]]
    /\ UNCHANGED <<chanClosed, closes, eventChan, talkResult, sessionKey,
                   sent, lastSignal, nextSession, nEvents, outerDone, ctl, crashedBy,
                   lastPush, listen, bot, messenger, client, provider, webhook>>

\* default: cancelFunc(); then recover() and block on completionSignals <- ...
DeferredCancel(s) ==
    /\ ~crashed
    /\ pc[s] = "cancel"
    /\ ctxDone' = [ctxDone EXCEPT ![s] = TRUE]
    /\ cancelledBy' = [cancelledBy EXCEPT ![s] = IF ctxDone[s] THEN @ ELSE "self"]
    /\ pc' = [pc EXCEPT ![s] = "send"]
    /\ UNCHANGED <<activeDialogs, chanClosed, closes, eventChan, talkResult, sessionKey,
                   sent, lastSignal, nextSession, nEvents, outerDone, ctl, crashedBy,
                   lastPush, listen, bot,
                 messenger, client, provider, webhook>>

\* ------------------------------------------------------ outer cancellation
\* the caller cancels the context passed to run
CancelOuter ==
    /\ ~crashed
    /\ ~outerDone
    /\ outerDone' = TRUE
    /\ UNCHANGED <<activeDialogs, ctxDone, cancelledBy, chanClosed, closes, eventChan, pc,
                   talkResult, sessionKey, sent, lastSignal, nextSession, nEvents, ctl,
                   crashedBy, lastPush, listen, bot,
                 messenger, client, provider, webhook>>

\* the cancelled parent cancels a child, the context startDialog made with
\* context.WithCancel; the children are cancelled one after another
PropagateCancel(s) ==
    /\ ~crashed
    /\ outerDone
    /\ pc[s] # "unborn" /\ ~ctxDone[s]
    /\ ctxDone' = [ctxDone EXCEPT ![s] = TRUE]
    /\ cancelledBy' = [cancelledBy EXCEPT ![s] = "outer"]
    /\ UNCHANGED <<activeDialogs, chanClosed, closes, eventChan, pc, talkResult, sessionKey,
                   sent, lastSignal, nextSession, nEvents, outerDone, ctl, crashedBy,
                   lastPush, listen, bot,
                 messenger, client, provider, webhook>>

Next ==
    \/ ProcessEvent
    \/ \E s \in Sessions : ProcessCompletionSignal(s)
    \/ RunReturn
    \/ \E s \in Sessions : TalkReturns(s)
    \/ \E s \in Sessions : DeferredCancel(s)
    \/ CancelOuter
    \/ \E s \in Sessions : PropagateCancel(s)

Spec == Init /\ [][Next]_vars

\* The scheduler runs every goroutine that can take a step, and run's select
\* chooses among its ready cases at random, so a worker that can call
\* cancelFunc() does, and a send on completionSignals that stays ready while
\* the loop runs is received.
FairSpec ==
    /\ Spec
    /\ \A s \in Sessions : WF_vars(DeferredCancel(s))
    /\ \A s \in Sessions : WF_vars(ProcessCompletionSignal(s))

\* ------------------------------------------------------ a wedged session
\* The controller with workers that neither read their channels nor return from
\* Talk. It starts with U1's session, started by a trigger event and sent
\* non-trigger events until its channel is full or one event short of it.
wedgedChan(n) ==
    [i \in 1..n |-> Event("U1", "R1", i = 1, NoResource)]

InitWedged ==
    /\ activeDialogs = ([personId |-> "U1", roomId |-> "R1"] :> refsOf(1))
    /\ ctxDone = [s \in Sessions |-> FALSE]
    /\ cancelledBy = [s \in Sessions |-> "none"]
    /\ chanClosed = [s \in Sessions |-> FALSE]
    /\ closes = [s \in Sessions |-> 0]
    /\ \E n \in {eventChanCapacity - 1, eventChanCapacity} :
          eventChan = [s \in Sessions |-> IF s = 1 THEN wedgedChan(n) ELSE <<>>]
    /\ pc = [s \in Sessions |-> IF s = 1 THEN "talk" ELSE "unborn"]
    /\ talkResult = [s \in Sessions |-> "none"]
    /\ sessionKey = [s \in Sessions |->
                        IF s = 1 THEN [personId |-> "U1", roomId |-> "R1"] ELSE NoKey]
    /\ sent = [s \in Sessions |-> 0]
    /\ lastSignal = NoSignal
    /\ nextSession = 2
    /\ nEvents = 0
    /\ outerDone = FALSE
    /\ ctl = "running"
    /\ crashedBy = "none"
    /\ lastPush = NoPush
    /\ listen = [s \in Sessions |-> NoListen]
    /\ bot = NoBot
    /\ messenger = NoMessenger
    /\ client = NoClient
    /\ provider = NoProvider
    /\ webhook = NoWebhook

NextWedged ==
    \/ ProcessEvent
    \/ RunReturn
    \/ CancelOuter
    \/ \E s \in Sessions : PropagateCancel(s)

SpecWedged == InitWedged /\ [][NextWedged]_vars

\* ------------------------------------------------------ messenger.Listen
\* what listener(event) returns: whether response, clarification and err are
\* non-nil
ListenerVerdicts == [response : BOOLEAN, clarification : BOOLEAN, err : BOOLEAN]

\* listenOn with the Send made for every clarification, response or not
listenOnSendAlways(l, event, verdict, sendFails) ==
    LET heard == [l EXCEPT !.got = <<event.Resource>>,
                           !.sends = IF verdict.clarification THEN 1 ELSE 0] IN
    IF verdict.err
    THEN [heard EXCEPT !.at = "returned", !.result = "listenerError"]
    ELSE IF verdict.response
    THEN [heard EXCEPT !.at = "returned", !.result = "response"]
    ELSE IF ~verdict.clarification
    THEN heard
    ELSE IF sendFails
    THEN [heard EXCEPT !.at = "returned", !.result = "sendError"]
    ELSE heard

\* listenOn with the clarification sent before err and response are looked at
listenOnClarificationFirst(l, event, verdict, sendFails) ==
    LET heard == [l EXCEPT !.got = <<event.Resource>>,
                           !.sends = IF verdict.clarification THEN 1 ELSE 0] IN
    IF verdict.clarification /\ sendFails
    THEN [heard EXCEPT !.at = "returned", !.result = "sendError"]
    ELSE IF verdict.err
    THEN [heard EXCEPT !.at = "returned", !.result = "listenerError"]
    ELSE IF verdict.response
    THEN [heard EXCEPT !.at = "returned", !.result = "response"]
    ELSE heard

\* listenOn with err looked at after the response
listenOnResponseFirst(l, event, verdict, sendFails) ==
    LET heard == [l EXCEPT !.got = <<event.Resource>>, !.sends = 0] IN
    IF verdict.response
    THEN [heard EXCEPT !.at = "returned", !.result = "response"]
    ELSE IF verdict.err
    THEN [heard EXCEPT !.at = "returned", !.result = "listenerError"]
    ELSE IF ~verdict.clarification
    THEN heard
    ELSE IF sendFails
    THEN [heard EXCEPT !.sends = 1, !.at = "returned", !.result = "sendError"]
    ELSE [heard EXCEPT !.sends = 1]

\* the body of case event := <-m.incomingEvents: the listener's verdict on the
\* event, and the Send of the clarification, which fails or not
listenOn(l, event, verdict, sendFails) ==
    LET heard == [l EXCEPT !.got = <<event.Resource>>, !.sends = 0] IN
    IF verdict.err
    THEN [heard EXCEPT !.at = "returned", !.result = "listenerError"]
    ELSE IF verdict.response
    THEN [heard EXCEPT !.at = "returned", !.result = "response"]
    ELSE IF ~verdict.clarification
    THEN heard
    ELSE IF sendFails
    THEN [heard EXCEPT !.sends = 1, !.at = "returned", !.result = "sendError"]
    ELSE [heard EXCEPT !.sends = 1]

\* Talk calls messenger.Listen, which enters its select
ListenCall(s) ==
    /\ ~crashed
    /\ pc[s] = "talk"
    /\ listen[s].at = "none"
    /\ listen' = [listen EXCEPT ![s].at = "select"]
    /\ UNCHANGED <<activeDialogs, ctxDone, cancelledBy, chanClosed, closes, eventChan, pc,
                   talkResult, sessionKey, sent, lastSignal, nextSession, nEvents,
                   outerDone, ctl, crashedBy, lastPush, bot,
                 messenger, client, provider, webhook>>

\* what the receive of Listen's select yields: the oldest buffered event, of
\* a closed channel too, and Event{} from a closed and empty channel
received(s) == IF eventChan[s] # <<>> THEN Head(eventChan[s]) ELSE zeroEvent

\* Listen: case event := <-m.incomingEvents, the listener answering with
\* verdict and the Send of a clarification failing or not
ReceiveWith(s, verdict, sendFails) ==
    /\ ~crashed
    /\ listen[s].at = "select"
    /\ eventChan[s] # <<>> \/ chanClosed[s]
    /\ listen' = [listen EXCEPT ![s] = listenOn(@, received(s), verdict, sendFails)]
    /\ eventChan' = [eventChan EXCEPT ![s] = IF @ # <<>> THEN Tail(@) ELSE @]
    /\ UNCHANGED <<activeDialogs, ctxDone, cancelledBy, chanClosed, closes, pc,
                   talkResult, sessionKey, sent, lastSignal, nextSession, nEvents,
                   outerDone, ctl, crashedBy, lastPush, bot,
                 messenger, client, provider, webhook>>

ListenReceive(s) ==
    \E verdict \in ListenerVerdicts, sendFails \in BOOLEAN :
        ReceiveWith(s, verdict, sendFails)

\* Listen's ctx.Done() case taken whether the context is done or not
ListenCancelledAnytime(s) ==
    /\ ~crashed
    /\ listen[s].at = "select"
    /\ listen' = [listen EXCEPT ![s].at = "returned", ![s].result = "ctxError"]
    /\ UNCHANGED <<activeDialogs, ctxDone, cancelledBy, chanClosed, closes, eventChan, pc,
                   talkResult, sessionKey, sent, lastSignal, nextSession, nEvents,
                   outerDone, ctl, crashedBy, lastPush, bot,
                 messenger, client, provider, webhook>>

\* Listen: case <-ctx.Done(): return nil, ctx.Err()
ListenCancelled(s) ==
    /\ ~crashed
    /\ listen[s].at = "select"
    /\ ctxDone[s]
    /\ listen' = [listen EXCEPT ![s].at = "returned", ![s].result = "ctxError"]
    /\ UNCHANGED <<activeDialogs, ctxDone, cancelledBy, chanClosed, closes, eventChan, pc,
                   talkResult, sessionKey, sent, lastSignal, nextSession, nEvents,
                   outerDone, ctl, crashedBy, lastPush, bot,
                 messenger, client, provider, webhook>>

\* run takes an event of U1 or U2 whose Resource tells it from every other.
\* In this specification workers call Listen and stay in Talk, and a session's
\* context is cancelled by preemption only.
TakeEvent ==
    \E p \in PersonIds, r \in RoomIds, t \in BOOLEAN :
        /\ nextSession = 1 => p = "U1"
        /\ HandleEvent(Event(p, r, t, nEvents + 1))

NextListen ==
    \/ TakeEvent
    \/ \E s \in Sessions : ListenCall(s)
    \/ \E s \in Sessions : ListenReceive(s)
    \/ \E s \in Sessions : ListenCancelled(s)

SpecListen == Init /\ [][NextListen]_vars

\* The control loop with its workers and their Listen calls together: events
\* not told apart by their Resource, the context passed to run not cancelled.
NextSessions ==
    \/ ProcessEvent
    \/ \E s \in Sessions : ProcessCompletionSignal(s)
    \/ \E s \in Sessions : TalkReturns(s)
    \/ \E s \in Sessions : DeferredCancel(s)
    \/ \E s \in Sessions : ListenCall(s)
    \/ \E s \in Sessions : ListenReceive(s)
    \/ \E s \in Sessions : ListenCancelled(s)

SpecSessions == Init /\ [][NextSessions]_vars

\* ---------------------------------------------------- Bot.ListenAndTalk
\* cancelWithCause that replaces the cause of a context already cancelled
cancelWithCauseOverriding(b, cause) == [b EXCEPT !.cause = cause]

\* cancelWithCause(err) on the context derived with context.WithCancelCause:
\* the first cancellation sets the cause, a later one changes nothing
cancelWithCause(b, cause) == IF b.cause = "none" THEN [b EXCEPT !.cause = cause] ELSE b

\* the caller cancels the context passed to ListenAndTalk: the derived
\* context, its child, is cancelled with the caller's cause
CallerCancels ==
    /\ ~crashed
    /\ bot.returned = "none"
    /\ ~outerDone
    /\ bot' = cancelWithCause(bot, "caller")
    /\ outerDone' = TRUE
    /\ UNCHANGED <<activeDialogs, ctxDone, cancelledBy, chanClosed, closes, eventChan, pc,
                   talkResult, sessionKey, sent, lastSignal, nextSession, nEvents, ctl,
                   crashedBy, lastPush, listen,
                 messenger, client, provider, webhook>>

\* webexEventProducer.run returns an error of its own (a webhook could not be
\* created, the server could not listen): cancelWithCause(err)
ProducerFails ==
    /\ ~crashed
    /\ bot.returned = "none"
    /\ bot.producer = "running"
    /\ bot' = [cancelWithCause(bot, "producer") EXCEPT !.producer = "failed"]
    /\ outerDone' = TRUE
    /\ UNCHANGED <<activeDialogs, ctxDone, cancelledBy, chanClosed, closes, eventChan, pc,
                   talkResult, sessionKey, sent, lastSignal, nextSession, nEvents, ctl,
                   crashedBy, lastPush, listen,
                 messenger, client, provider, webhook>>

\* the context being done, the server is closed and webexEventProducer.run
\* returns http.ErrServerClosed: cancelWithCause(err) on the cancelled context
ProducerCloses ==
    /\ ~crashed
    /\ bot.returned = "none"
    /\ bot.producer = "running"
    /\ outerDone
    /\ bot' = [cancelWithCause(bot, "producer") EXCEPT !.producer = "closed"]
    /\ UNCHANGED <<activeDialogs, ctxDone, cancelledBy, chanClosed, closes, eventChan, pc,
                   talkResult, sessionKey, sent, lastSignal, nextSession, nEvents,
                   outerDone, ctl, crashedBy, lastPush, listen,
                 messenger, client, provider, webhook>>

\* b.dialogController.run(ctx) has returned: return context.Cause(ctx)
ListenAndTalkReturns ==
    /\ ~crashed
    /\ ctl = "returned"
    /\ bot.returned = "none"
    /\ bot' = [bot EXCEPT !.returned = bot.cause]
    /\ UNCHANGED <<activeDialogs, ctxDone, cancelledBy, chanClosed, closes, eventChan, pc,
                   talkResult, sessionKey, sent, lastSignal, nextSession, nEvents,
                   outerDone, ctl, crashedBy, lastPush, listen,
                 messenger, client, provider, webhook>>

\* ListenAndTalk: the producer's goroutine, run and the workers it starts,
\* which stay in Talk
NextBot ==
    \/ ProcessEvent
    \/ RunReturn
    \/ \E s \in Sessions : PropagateCancel(s)
    \/ CallerCancels
    \/ ProducerFails
    \/ ProducerCloses
    \/ ListenAndTalkReturns

SpecBot == Init /\ [][NextBot]_vars

\* ------------------------------------- messenger.Send, messenger.OfferChoice
\* One session's messenger (src/unnamed/part_000) seen from its dialog task:
\* the controller enqueues the events the webhook handler prepared and stops
\* the session; the task calls Send and OfferChoice, one call at a time.
MaxInbound == 2           \* events buffered in the messenger's channel

TextFormatMarkdown == 0   \* const TextFormatMarkdown TextFormat = iota
TextFormatHTML == 1
TextFormats == -1..2      \* TextFormat is an int: any value can be passed

AttachmentActions == "attachmentActions"
Messages == "messages"
Memberships == "memberships"
ResourceKinds == {AttachmentActions, Messages, Memberships}

\* AttachmentAction.Inputs: the JSON object {"data": d} is <<d>>; noInputs is
\* a payload json.Unmarshal cannot decode into attachmentActionInputs
noInputs == <<>>
SubmittedData == {"yes", "no", "maybe"}
Inputs == {noInputs} \cup {<<d>> : d \in SubmittedData}

\* Event.Resource is an any: its dynamic type, and the Inputs of an
\* attachment action
Resource(type, inputs) == [type |-> type, Inputs |-> inputs]
nilResource == Resource("nil", noInputs)

\* Event{}, which the receive from a closed and empty channel yields
zeroResourceEvent == [ResourceKind |-> "", Resource |-> nilResource]

\* the webhook callbacks: the kind of the resource, and the inputs Webex
\* holds of the attachment action the callback is about
WebhookCallbacks ==
    {cb \in [Resource : ResourceKinds, inputs : Inputs] :
        cb.Resource # AttachmentActions => cb.inputs = noInputs}

\* the resource the handler fetched with the client: GetMessage and
\* GetAttachmentAction return pointers
prepareEventResource(callback) ==
    CASE callback.Resource = Messages -> Resource("*webexapi.Message", noInputs)
      [] callback.Resource = AttachmentActions ->
            Resource("*webexapi.AttachmentAction", callback.inputs)
      [] OTHER -> nilResource

prepareEvent(callback) ==
    [ResourceKind |-> callback.Resource, Resource |-> prepareEventResource(callback)]

\* the type assertion event.Resource.(webexapi.AttachmentAction) succeeds on
\* a value of that type only
fetchAttachmentAction(event) ==
    IF event.ResourceKind # AttachmentActions
    THEN [attachmentAction |-> nilResource, isSuccessful |-> FALSE]
    ELSE IF event.Resource.type = "webexapi.AttachmentAction"
    THEN [attachmentAction |-> event.Resource, isSuccessful |-> TRUE]
    ELSE [attachmentAction |-> nilResource, isSuccessful |-> FALSE]

fetchUserChoice(attachmentAction) ==
    IF attachmentAction.Inputs = noInputs
    THEN [userChoice |-> "", err |-> TRUE]
    ELSE [userChoice |-> attachmentAction.Inputs[1], err |-> FALSE]

\* options is the sequence of the Option.Id offered
isOneOf(optionId, options) == \E i \in 1..Len(options) : options[i] = optionId

\* what a listener returns: response is <<>> for nil and <<v>> for the value v
silent == [response |-> <<>>, clarification |-> FALSE, err |-> FALSE]

\* the options listener erring on every event that is not an attachment action
newOptionsListenerStrict(options, event) ==
    LET fetched == fetchAttachmentAction(event)
        choice == fetchUserChoice(fetched.attachmentAction) IN
    IF ~fetched.isSuccessful \/ choice.err THEN [silent EXCEPT !.err = TRUE]
    ELSE IF ~isOneOf(choice.userChoice, options) THEN silent
    ELSE [silent EXCEPT !.response = <<choice.userChoice>>]

newOptionsListener(options, event) ==
    LET fetched == fetchAttachmentAction(event)
        choice == fetchUserChoice(fetched.attachmentAction) IN
    IF ~fetched.isSuccessful THEN silent
    ELSE IF choice.err THEN [silent EXCEPT !.err = TRUE]
    ELSE IF ~isOneOf(choice.userChoice, options) THEN silent
    ELSE [silent EXCEPT !.response = <<choice.userChoice>>]

\* which of a listener's results are non-nil
verdictOf(said) ==
    [response |-> said.response # <<>>, clarification |-> said.clarification,
     err |-> said.err]

calling(m, method) ==
    [m EXCEPT !.call = method, !.at = "returned", !.listen = NoListen, !.options = <<>>,
              !.optionId = "", !.err = "nil", !.creates = 0, !.consumed = FALSE]

Message == [Format : TextFormats, File : BOOLEAN, AdaptiveCard : BOOLEAN]

\* what CreateMessage returned: a message, a WebexError or an error
CreateOutcomes == {"message", "webexErr", "err"}

\* Send with an unknown format sent as markdown
SendAnyFormat(m, message, created) ==
    LET c == calling(m, "Send") IN
    IF created = "message" THEN [c EXCEPT !.creates = 1]
    ELSE [c EXCEPT !.creates = 1, !.err = "unable to send the message"]

\* Send: newMessageCreationRequest, then CreateMessage returning created
Send(m, message, created) ==
    LET c == calling(m, "Send") IN
    IF message.Format \notin {TextFormatMarkdown, TextFormatHTML}
    THEN [c EXCEPT !.err = "unable to prepare a message creation request"]
    ELSE IF created = "message" THEN [c EXCEPT !.creates = 1]
    ELSE [c EXCEPT !.creates = 1, !.err = "unable to send the message"]

\* what sendChoiceMessage does: building the card fails, or CreateMessage
\* returns a message, a WebexError or an error
PromptOutcomes == {"unable to build"} \cup CreateOutcomes

\* OfferChoice listening whether the prompt was sent or not
OfferChoiceListenAlways(m, options, prompted) ==
    LET c == [calling(m, "OfferChoice") EXCEPT !.options = options] IN
    [c EXCEPT !.creates = IF prompted = "unable to build" THEN 0 ELSE 1,
              !.at = "select", !.listen.at = "select"]

\* OfferChoice up to Listen's select: sendChoiceMessage, then listenForChoice
OfferChoice(m, options, prompted) ==
    LET c == [calling(m, "OfferChoice") EXCEPT !.options = options] IN
    IF prompted = "unable to build"
    THEN [c EXCEPT !.err = "unable to send the choice message"]
    ELSE IF prompted # "message"
    THEN [c EXCEPT !.creates = 1, !.err = "unable to send the choice message"]
    ELSE [c EXCEPT !.creates = 1, !.at = "select", !.listen.at = "select"]

\* listenForChoice after Listen returned: userChoice.(string) panics on the
\* nil that Listen returns with an error
listenForChoice(m, heard, said) ==
    IF heard.at # "returned" THEN [m EXCEPT !.listen = heard]
    ELSE IF heard.result = "response"
    THEN [m EXCEPT !.listen = heard, !.at = "returned", !.optionId = said.response[1]]
    ELSE [m EXCEPT !.listen = heard, !.at = "panicked", !.err = heard.result]

\* what the receive of Listen's select yields
receivedBy(m) ==
    IF m.incomingEvents # <<>> THEN Head(m.incomingEvents) ELSE zeroResourceEvent

\* Listen's case event := <-m.incomingEvents under the options listener
choiceOn(m, event) ==
    LET said == newOptionsListener(m.options, event)
        rest == [m EXCEPT !.incomingEvents = IF @ # <<>> THEN Tail(@) ELSE @,
                          !.consumed = TRUE] IN
    listenForChoice(rest, listenOn(m.listen, event, verdictOf(said), FALSE), said)

OptionLists == {<<>>, <<"yes">>, <<"yes", "no">>}

messengerOnly ==
    UNCHANGED <<activeDialogs, ctxDone, cancelledBy, chanClosed, closes, eventChan, pc,
                talkResult, sessionKey, sent, lastSignal, nextSession, nEvents,
                outerDone, ctl, crashedBy, lastPush, listen, bot, client, provider, webhook>>

\* the controller pushes an event the webhook handler prepared
Enqueue ==
    \E callback \in WebhookCallbacks :
        /\ ~messenger.closed
        /\ Len(messenger.incomingEvents) < MaxInbound
        /\ messenger' = [messenger EXCEPT
                            !.incomingEvents = Append(@, prepareEvent(callback))]
        /\ messengerOnly

\* the session's context is cancelled: by stopDialog or by its parent
CancelContext ==
    /\ ~messenger.ctxDone
    /\ messenger' = [messenger EXCEPT !.ctxDone = TRUE]
    /\ messengerOnly

\* stopDialog closes the channel after it cancelled the context
CloseChannel ==
    /\ messenger.ctxDone /\ ~messenger.closed
    /\ messenger' = [messenger EXCEPT !.closed = TRUE]
    /\ messengerOnly

inTask(m) == m.at \in {"idle", "returned"}

SendCall ==
    \E message \in Message, created \in CreateOutcomes :
        /\ inTask(messenger)
        /\ messenger' = Send(messenger, message, created)
        /\ messengerOnly

OfferChoiceCall ==
    \E options \in OptionLists, prompted \in PromptOutcomes :
        /\ inTask(messenger)
        /\ messenger' = OfferChoice(messenger, options, prompted)
        /\ messengerOnly

canReceive(m) == m.at = "select" /\ (m.incomingEvents # <<>> \/ m.closed)

ChoiceReceive ==
    /\ canReceive(messenger)
    /\ messenger' = choiceOn(messenger, receivedBy(messenger))
    /\ messengerOnly

\* Listen's case <-ctx.Done() under listenForChoice
ChoiceCancelled ==
    /\ messenger.at = "select" /\ messenger.ctxDone
    /\ messenger' = listenForChoice(messenger,
                        [messenger.listen EXCEPT !.at = "returned", !.result = "ctxError"],
                        silent)
    /\ messengerOnly

NextMessenger ==
    \/ Enqueue
    \/ CancelContext
    \/ CloseChannel
    \/ SendCall
    \/ OfferChoiceCall
    \/ ChoiceReceive
    \/ ChoiceCancelled

SpecMessenger == Init /\ [][NextMessenger]_vars

\* ------------------------------------------- combinedDialogTaskProvider
MaxProviders == 2         \* sub-providers of a combined provider

ProviderEvents == {"E1", "E2"}
DialogTasks == {"T1", "T2"}

\* a sub-provider is what its ProvideFor returns for each event
Subproviders == [ProviderEvents -> DialogTasks \cup {NilTask}]

SubproviderLists == UNION {[1..n -> Subproviders] : n \in 0..MaxProviders}

\* the loop of ProvideFor from the i-th sub-provider on
RECURSIVE ProvideFrom(_, _, _)
ProvideFrom(subproviders, event, i) ==
    IF i > Len(subproviders)
    THEN [triggeredTask |-> NilTask, consulted |-> Len(subproviders)]
    ELSE IF subproviders[i][event] # NilTask
    THEN [triggeredTask |-> subproviders[i][event], consulted |-> i]
    ELSE ProvideFrom(subproviders, event, i + 1)

\* ProvideFor returning the task of the last sub-provider that has one
RECURSIVE ProvideForLastFrom(_, _, _)
ProvideForLastFrom(subproviders, event, i) ==
    IF i = 0
    THEN [triggeredTask |-> NilTask, consulted |-> Len(subproviders)]
    ELSE IF subproviders[i][event] # NilTask
    THEN [triggeredTask |-> subproviders[i][event], consulted |-> Len(subproviders)]
    ELSE ProvideForLastFrom(subproviders, event, i - 1)

ProvideForLast(subproviders, event) ==
    ProvideForLastFrom(subproviders, event, Len(subproviders))

ProvideFor(subproviders, event) == ProvideFrom(subproviders, event, 1)

providerOnly ==
    UNCHANGED <<activeDialogs, ctxDone, cancelledBy, chanClosed, closes, eventChan, pc,
                talkResult, sessionKey, sent, lastSignal, nextSession, nEvents,
                outerDone, ctl, crashedBy, lastPush, listen, bot, messenger, client,
                webhook>>

NewCombinedDialogTaskProvider ==
    \E subproviders \in SubproviderLists :
        /\ ~provider.built
        /\ provider' = [provider EXCEPT !.subproviders = subproviders, !.built = TRUE]
        /\ providerOnly

ProvideForCall ==
    \E event \in ProviderEvents :
        /\ provider.built
        /\ \E found \in {ProvideFor(provider.subproviders, event)} :
              provider' = [provider EXCEPT !.asked = event,
                                           !.triggeredTask = found.triggeredTask,
                                           !.consulted = found.consulted]
        /\ providerOnly

NextProvider == NewCombinedDialogTaskProvider \/ ProvideForCall

SpecProvider == Init /\ [][NextProvider]_vars

\* ------------------------------------------------- the Webex API client
MaxCalls == 2             \* calls made to the client

ClientMethods == {"GetMessage", "CreateMessage", "GetAttachmentAction", "CreateWebhook"}

StatusCodes == {199, 200, 299, 300, 404, 500}

\* the outcomes of httpClient.Do
HTTPResponses ==
    {NoResponse} \cup [done : {TRUE}, StatusCode : StatusCodes, decodes : BOOLEAN]

isSuccessful(response) == response.StatusCode > 199 /\ response.StatusCode < 300

\* fetchWebexErrorFrom
fetchWebexErrorFrom(response) ==
    IF response.decodes
    THEN Returned(FALSE, response.StatusCode, FALSE)
    ELSE Returned(FALSE, 0, TRUE)

\* a client method that takes every response with a body for a success
callTrusting(c, method, isValid, response) ==
    LET made == [c EXCEPT !.calls = @ + 1, !.method = method, !.response = NoResponse] IN
    IF ~isValid
    THEN [made EXCEPT !.returned = Returned(FALSE, 0, TRUE)]
    ELSE [made EXCEPT !.requests = @ + 1, !.response = response,
                      !.returned = IF ~response.done THEN Returned(FALSE, 0, TRUE)
                                   ELSE Returned(TRUE, 0, FALSE)]

\* GetMessage, CreateMessage, GetAttachmentAction and CreateWebhook have one
\* shape: the request is built (isValid) or not, Do returns response, the
\* status is looked at and the body decoded
call(c, method, isValid, response) ==
    LET made == [c EXCEPT !.calls = @ + 1, !.method = method, !.response = NoResponse] IN
    IF ~isValid
    THEN [made EXCEPT !.returned = Returned(FALSE, 0, TRUE)]
    ELSE [made EXCEPT !.requests = @ + 1, !.response = response,
                      !.returned = IF ~response.done THEN Returned(FALSE, 0, TRUE)
                                   ELSE IF ~isSuccessful(response)
                                   THEN fetchWebexErrorFrom(response)
                                   ELSE IF response.decodes THEN Returned(TRUE, 0, FALSE)
                                   ELSE Returned(FALSE, 0, TRUE)]

clientOnly ==
    UNCHANGED <<activeDialogs, ctxDone, cancelledBy, chanClosed, closes, eventChan, pc,
                talkResult, sessionKey, sent, lastSignal, nextSession, nEvents,
                outerDone, ctl, crashedBy, lastPush, listen, bot, messenger, provider, webhook>>

ClientCall ==
    \E method \in ClientMethods, isValid \in BOOLEAN, response \in HTTPResponses :
        /\ client.calls < MaxCalls
        /\ client' = call(client, method, isValid, response)
        /\ clientOnly

NextClient == ClientCall

SpecClient == Init /\ [][NextClient]_vars

\* ------------------------------------------------------ the webhook handler
\* webhookHandler (src/webex_event_producer.go): ServeHTTP runs once for each
\* request, in a goroutine of its own, and its enqueue waits for room in the
\* outgoing channel, which the controller's run reads.
StatusOK == 200
StatusAccepted == 202
StatusBadRequest == 400
StatusUnauthorized == 401
StatusFailedDependency == 424
StatusTooManyRequests == 429
StatusInternalServerError == 500

\* the secret the handler is built with ("" for none) and the keys a sender
\* may sign with
WebhookSecrets == {"", "k1"}
SenderKeys == {"k1", "k2"}

\* a request body: whether it decodes as a webexapi.WebhookCallback, the
\* callback's Resource, and whether its Data decodes as an object with an id
Bodies ==
    {b \in [decodes : BOOLEAN, Resource : ResourceKinds, hasId : BOOLEAN] :
        ~b.decodes => (b.Resource = Memberships /\ ~b.hasId)}

\* computeMAC: the HMAC-SHA1 of the body under the secret, which tells
\* apart any two keys and any two bodies
computeMAC(secret, body) == [key |-> secret, body |-> body]

nilMAC == [key |-> "", body |-> [decodes |-> FALSE, Resource |-> Memberships, hasId |-> FALSE]]

\* the X-Spark-Signature header: absent, not a hexadecimal string, or the
\* hexadecimal encoding of the MAC some sender computed of some body
Signatures ==
    {[encoded |-> "", mac |-> nilMAC], [encoded |-> "nothex", mac |-> nilMAC]}
    \cup {[encoded |-> "hex", mac |-> computeMAC(k, b)] : k \in SenderKeys, b \in Bodies}

\* a body an eavesdropper has seen signed with the secret
signedBefore == [decodes |-> TRUE, Resource |-> Messages, hasId |-> TRUE]

\* the requests: the signature, if any, is that of the body sent or the one
\* of a body signed before, sent again with another body
HTTPRequests ==
    {q \in [signature : Signatures, body : Bodies] :
        q.signature.encoded = "hex" => q.signature.mac.body \in {q.body, signedBefore}}

\* what the Webex client answers when the handler fetches the resource
FetchOutcomes == {"resource", "err", "webexErr"}

fetchMAC(request) ==
    IF request.signature.encoded = ""
    THEN [mac |-> nilMAC, err |-> FALSE]
    ELSE IF request.signature.encoded = "nothex"
    THEN [mac |-> nilMAC, err |-> TRUE]
    ELSE [mac |-> request.signature.mac, err |-> FALSE]

\* authenticate that takes a request without the header as authentic
authenticateUnsigned(webhookSecret, request) ==
    LET provided == fetchMAC(request) IN
    IF webhookSecret = "" THEN FALSE
    ELSE IF provided.err THEN TRUE
    ELSE IF provided.mac = nilMAC THEN FALSE
    ELSE computeMAC(webhookSecret, request.body) # provided.mac

\* authenticate: TRUE for a non-nil error
authenticate(webhookSecret, request) ==
    LET provided == fetchMAC(request) IN
    IF webhookSecret = "" THEN FALSE
    ELSE IF provided.err THEN TRUE
    ELSE IF provided.mac = nilMAC THEN TRUE
    ELSE computeMAC(webhookSecret, request.body) # provided.mac

\* prepareEvent with prepareEventResource: the status code of its error (0
\* for none) and the event
prepareEventFor(body, fetched) ==
    LET callback == [Resource |-> body.Resource, inputs |-> noInputs] IN
    IF ~body.hasId
    THEN [statusCode |-> StatusBadRequest, event |-> <<>>]
    ELSE IF body.Resource \in {Messages, AttachmentActions} /\ fetched = "err"
    THEN [statusCode |-> StatusInternalServerError, event |-> <<>>]
    ELSE IF body.Resource \in {Messages, AttachmentActions} /\ fetched = "webexErr"
    THEN [statusCode |-> StatusFailedDependency, event |-> <<>>]
    ELSE [statusCode |-> 0, event |-> <<prepareEvent(callback)>>]

\* an EventFilter is what it returns for the events of each kind; accepting
\* is the filter that returns true for the events of the kinds given
accepting(kinds) == [k \in ResourceKinds |-> k \in kinds]

EventFilters ==
    {accepting({Messages}), accepting({Messages, AttachmentActions}),
     accepting({AttachmentActions, Memberships})}

FilterLists == UNION {[1..n -> EventFilters] : n \in 0..MaxFilters}

\* matchesFilters calling every filter before it answers
RECURSIVE matchesFiltersAllFrom(_, _, _, _)
matchesFiltersAllFrom(filters, event, i, sofar) ==
    IF i > Len(filters)
    THEN [matches |-> sofar, called |-> Len(filters)]
    ELSE matchesFiltersAllFrom(filters, event, i + 1,
                               sofar /\ filters[i][event.ResourceKind])

matchesFiltersAll(filters, event) == matchesFiltersAllFrom(filters, event, 1, TRUE)

\* the loop of matchesFilters from the i-th filter on; called: the number of
\* filters it has called when it returns
RECURSIVE matchesFiltersFrom(_, _, _)
matchesFiltersFrom(filters, event, i) ==
    IF i > Len(filters)
    THEN [matches |-> TRUE, called |-> Len(filters)]
    ELSE IF ~filters[i][event.ResourceKind]
    THEN [matches |-> FALSE, called |-> i]
    ELSE matchesFiltersFrom(filters, event, i + 1)

matchesFilters(filters, event) == matchesFiltersFrom(filters, event, 1)

\* ServeHTTP up to its call of enqueue: the call after it, at "enqueue" when
\* the event is to be placed and at "done" with the status written
serve(h, request, fetched) ==
    LET prepared == prepareEventFor(request.body, fetched)
        filtered == matchesFilters(h.filters, prepared.event[1])
    IN  IF authenticate(h.webhookSecret, request)
        THEN [NoRequest EXCEPT !.at = "done", !.StatusCode = StatusUnauthorized]
        ELSE IF ~request.body.decodes
        THEN [NoRequest EXCEPT !.at = "done", !.StatusCode = StatusBadRequest]
        ELSE IF prepared.statusCode # 0
        THEN [NoRequest EXCEPT !.at = "done", !.StatusCode = prepared.statusCode]
        ELSE IF ~filtered.matches
        THEN [NoRequest EXCEPT !.at = "done", !.StatusCode = StatusOK,
                               !.event = prepared.event, !.called = filtered.called]
        ELSE [NoRequest EXCEPT !.at = "enqueue",
                               !.event = prepared.event, !.called = filtered.called]

webhookOnly ==
    UNCHANGED <<activeDialogs, ctxDone, cancelledBy, chanClosed, closes, eventChan, pc,
                talkResult, sessionKey, sent, lastSignal, nextSession, nEvents,
                outerDone, ctl, crashedBy, lastPush, listen, bot, messenger, client,
                provider>>

NewWebhookHandler ==
    \E webhookSecret \in WebhookSecrets, filters \in FilterLists :
        /\ ~webhook.built
        /\ webhook' = [webhook EXCEPT !.built = TRUE, !.webhookSecret = webhookSecret,
                                      !.filters = filters]
        /\ webhookOnly

\* the server calls ServeHTTP for a request, the Webex client answering with
\* fetched; the call followed before it has returned
ServeWith(request, fetched) ==
    /\ webhook.built
    /\ webhook.request.at \in {"idle", "done"}
    /\ webhook.served < MaxRequests
    /\ webhook' = [webhook EXCEPT !.served = @ + 1,
                                  !.request = serve(webhook, request, fetched)]
    /\ webhookOnly

\* the handler calls the client for messages and attachment actions only
fetches(request) ==
    /\ request.body.decodes /\ request.body.hasId
    /\ request.body.Resource \in {Messages, AttachmentActions}

ServeHTTP ==
    \E request \in HTTPRequests, fetched \in FetchOutcomes :
        /\ fetched # "resource" => fetches(request)
        /\ ServeWith(request, fetched)

\* enqueue whose send does not end the loop
EnqueueSendRetrying ==
    /\ webhook.request.at = "enqueue"
    /\ Len(webhook.outgoingEvents) < eventChannelBufferSize
    /\ webhook.request.placed < 2
    /\ webhook' = [webhook EXCEPT
                      !.outgoingEvents = Append(@, webhook.request.event[1]),
                      !.request.placed = @ + 1]
    /\ webhookOnly

\* enqueue: case h.outgoingEvents <- event: return true, and ServeHTTP writes
\* StatusAccepted
EnqueueSend ==
    /\ webhook.request.at = "enqueue"
    /\ Len(webhook.outgoingEvents) < eventChannelBufferSize
    /\ webhook' = [webhook EXCEPT
                      !.outgoingEvents = Append(@, webhook.request.event[1]),
                      !.request.placed = @ + 1,
                      !.request.at = "done",
                      !.request.StatusCode = StatusAccepted]
    /\ webhookOnly

\* enqueue: case <-ctx.Done(): return false, and ServeHTTP writes
\* StatusTooManyRequests
EnqueueDone ==
    /\ webhook.request.at = "enqueue"
    /\ webhook.request.ctxDone
    /\ webhook' = [webhook EXCEPT !.request.at = "done",
                                  !.request.StatusCode = StatusTooManyRequests]
    /\ webhookOnly

\* enqueue: default: time.Sleep, taken when no other case is ready
EnqueueSleep ==
    /\ webhook.request.at = "enqueue"
    /\ Len(webhook.outgoingEvents) = eventChannelBufferSize
    /\ ~webhook.request.ctxDone
    /\ webhook' = [webhook EXCEPT !.request.slept = TRUE]
    /\ webhookOnly

\* the context of the request being served is cancelled: its client went
\* away or the server shuts down
RequestCancelled ==
    /\ webhook.request.at = "enqueue"
    /\ ~webhook.request.ctxDone
    /\ webhook' = [webhook EXCEPT !.request.ctxDone = TRUE]
    /\ webhookOnly

\* the ServeHTTP call of another request, running at the same time, places
\* the event it prepared of a callback
EnqueueOfAnother ==
    \E kind \in ResourceKinds :
        /\ webhook.built
        /\ Len(webhook.outgoingEvents) < eventChannelBufferSize
        /\ webhook' = [webhook EXCEPT !.outgoingEvents =
                          Append(@, prepareEvent([Resource |-> kind, inputs |-> noInputs]))]
        /\ webhookOnly

\* the controller's run receives the oldest event of the channel
ReceiveOutgoing ==
    /\ webhook.outgoingEvents # <<>>
    /\ webhook' = [webhook EXCEPT !.outgoingEvents = Tail(@)]
    /\ webhookOnly

NextWebhook ==
    \/ NewWebhookHandler
    \/ ServeHTTP
    \/ EnqueueSend
    \/ EnqueueDone
    \/ EnqueueSleep
    \/ RequestCancelled
    \/ EnqueueOfAnother
    \/ ReceiveOutgoing

SpecWebhook == Init /\ [][NextWebhook]_vars

TypeOK ==
    /\ DOMAIN activeDialogs \subseteq dialogKey
    /\ \A k \in DOMAIN activeDialogs : activeDialogs[k] \in dialogReferences
    /\ nextSession \in 1..(MaxSessions + 1)
    /\ nEvents \in 0..MaxEvents
    /\ lastSignal.executionError \in executionErrors \cup {"none"}

\* ------------------------------------------------------------ the claims
\* the sessions that have been started
Started == {s \in Sessions : pc[s] # "unborn"}

\* the step is the control loop receiving the completion signal of worker s
ReceivesSignalOf(s) == sent'[s] = sent[s] + 1

\* C1: no stale deletion. When the control loop handles the completion signal
\* of worker s while the registry entry under s's key belongs to another
\* session, that entry stays in the registry and that session's channel is
\* not closed.
C1_NoStaleDeletion ==
    [][\A s \in Sessions :
          (/\ ReceivesSignalOf(s)
           /\ sessionKey[s] \in DOMAIN activeDialogs
           /\ activeDialogs[sessionKey[s]].eventChan # s)
          => /\ sessionKey[s] \in DOMAIN activeDialogs'
             /\ activeDialogs'[sessionKey[s]] = activeDialogs[sessionKey[s]]
             /\ chanClosed'[activeDialogs[sessionKey[s]].eventChan]
                    = chanClosed[activeDialogs[sessionKey[s]].eventChan]]_vars

\* C2: a worker whose session the router stopped (stopDialog cancelled its
\* context and closed its channel) has sent no completion signal.
C2_PreemptedSendsNothing ==
    \A s \in Sessions : cancelledBy[s] = "router" => sent[s] = 0

\* C3: no worker sends two completion signals; a worker that has returned and
\* whose context was not cancelled from outside (by the router or by the
\* outer cancellation) has sent exactly one, and only a worker that has sent
\* its signal has returned without being cancelled; the signal the control
\* loop received last carries the key of the worker that sent it, which is
\* the key startDialog stored that worker's session under.
C3_ExactlyOneSignal ==
    /\ \A s \in Sessions :
        /\ sent[s] <= 1
        /\ (pc[s] = "done" /\ cancelledBy[s] \in {"none", "self"}) => sent[s] = 1
        /\ (pc[s] # "done") => sent[s] = 0
    /\ \A k \in DOMAIN activeDialogs : sessionKey[activeDialogs[k].eventChan] = k
    /\ lastSignal.worker # Nil =>
        /\ sent[lastSignal.worker] = 1
        /\ lastSignal.key = sessionKey[lastSignal.worker]

\* C3 witness: a worker that panicked and one that returned have both
\* finished without being cancelled from outside, each with one signal sent.
C3_Witness ==
    \E s, t \in Sessions :
        /\ pc[s] = "done" /\ cancelledBy[s] = "self" /\ talkResult[s] = "panicked"
        /\ pc[t] = "done" /\ cancelledBy[t] = "self" /\ talkResult[t] = "returned"
        /\ sent[s] = 1 /\ sent[t] = 1

\* the sessions of key k that are live: context not cancelled, worker not
\* returned
Live(k) == {s \in Started : sessionKey[s] = k /\ ~ctxDone[s] /\ pc[s] # "done"}

\* C4: for each key there is at most one live session.
C4_OneLiveSessionPerKey == \A k \in dialogKey : Cardinality(Live(k)) <= 1

\* the workers of key k that execute Talk and have not been told to stop
Talking(k) == {s \in Started : sessionKey[s] = k /\ pc[s] = "talk" /\ ~ctxDone[s]}

\* C5: for each key at most one worker executes Talk. A worker whose context
\* is cancelled is not counted, so a preempted task that has not yet noticed
\* its cancellation does not count against the claim.
C5_OneTalkingWorkerPerKey == \A k \in dialogKey : Cardinality(Talking(k)) <= 1

\* C6: no session channel is the target of more than one close.
C6_ClosedAtMostOnce == \A s \in Sessions : closes[s] <= 1

\* C6 witness: stopDialog has closed the channel of one session and
\* processCompletionSignal that of another, and the control loop has returned
\* through stopAllDialogs.
C6_Witness ==
    /\ ctl = "returned"
    /\ \E s, t \in Sessions :
        /\ cancelledBy[s] = "router" /\ closes[s] = 1
        /\ cancelledBy[t] = "self" /\ closes[t] = 1 /\ sent[t] = 1

\* C7: pushEvent has never found the channel of the registry entry closed.
C7_NoSendAfterClose == lastPush.outcome # "none" => ~lastPush.closed

\* C7 witness: after some channel was closed, pushEvent forwarded an event
\* to a session that already existed.
C7_Witness ==
    /\ lastPush.outcome = "pushed" /\ ~lastPush.fresh
    /\ \E s \in Sessions : chanClosed[s]

\* C8: a worker whose Talk panicked after its context was cancelled from
\* outside ends without a completion signal and without terminating the
\* process.
C8_PreemptedPanicContained ==
    \A s \in Sessions :
        (pc[s] = "done" /\ talkResult[s] = "panicked" /\ cancelledBy[s] \in {"router", "outer"})
        => sent[s] = 0 /\ crashedBy # "worker"

\* the sessions of the keys other than k
Others(k) == {s \in Started : sessionKey[s] # k}

\* C9: when the control loop handles the completion signal of a worker that
\* panicked and was not preempted, the signal's executionError is non-nil,
\* afterwards the worker's key is absent from the registry, and the registry
\* entries, contexts and channels of all other keys are as before.
C9_PanicReportedAndLocal ==
    [][\A s \in Sessions :
          (ReceivesSignalOf(s) /\ talkResult[s] = "panicked" /\ cancelledBy[s] = "self")
          => /\ lastSignal'.executionError # "nil"
             /\ sent'[s] = 1
             /\ sessionKey[s] \notin DOMAIN activeDialogs'
             /\ \A k \in DOMAIN activeDialogs \ {sessionKey[s]} :
                   k \in DOMAIN activeDialogs' /\ activeDialogs'[k] = activeDialogs[k]
             /\ \A t \in Others(sessionKey[s]) :
                   /\ ctxDone'[t] = ctxDone[t]
                   /\ chanClosed'[t] = chanClosed[t]
                   /\ eventChan'[t] = eventChan[t]]_vars

\* the step is processEvent starting session s on a key that has an entry,
\* the context passed to run not being cancelled
PreemptsWith(s) ==
    /\ ~outerDone
    /\ nextSession = s /\ nextSession' = s + 1
    /\ sessionKey'[s] \in DOMAIN activeDialogs

\* C10: when processEvent handles a trigger event whose key has a registry
\* entry (outer cancellation aside), afterwards the old session's context is cancelled and its channel
\* closed, the entry refers to the new session (new context, new channel),
\* and exactly one new worker has been started.
C10_PreemptionOnTrigger ==
    [][\A s \in Sessions :
          PreemptsWith(s) =>
             LET old == activeDialogs[sessionKey'[s]] IN
             /\ ctxDone'[old.context]
             /\ chanClosed'[old.eventChan]
             /\ activeDialogs'[sessionKey'[s]] = [context |-> s, eventChan |-> s, cancelFunc |-> s]
             /\ ~chanClosed'[s]
             /\ pc'[s] = "talk"
             /\ \A t \in Sessions \ {s} : pc'[t] = pc[t]]_vars

\* C11: once run has returned on the cancellation of its context, every
\* session in the registry has its context cancelled and its channel closed.
C11_OuterCancellationStopsAll ==
    ctl = "returned" =>
        \A k \in DOMAIN activeDialogs :
            /\ ctxDone[activeDialogs[k].context]
            /\ chanClosed[activeDialogs[k].eventChan]

\* C12: a worker whose Talk ended without its context being done has its
\* completion signal received, unless the control loop stops running; when
\* the loop has handled a signal the signal's key is absent from the
\* registry; and an event whose key is absent is dropped if it triggers no
\* task (registry, channels and workers unchanged) and starts a fresh session
\* under its key if it does, with no channel closed.
C12_CompletionRemovesSession ==
    /\ \A s \in Sessions :
          (pc[s] = "cancel") ~> (sent[s] = 1 \/ ctl # "running" \/ crashed)
    /\ [][\A s \in Sessions :
            ReceivesSignalOf(s) => sessionKey[s] \notin DOMAIN activeDialogs']_vars
    /\ [][\A p \in PersonIds, r \in RoomIds, t \in BOOLEAN :
            LET key == [personId |-> p, roomId |-> r] IN
            (key \notin DOMAIN activeDialogs /\ HandleEvent(Event(p, r, t, NoResource)))
            => IF t
               THEN /\ activeDialogs' = [k \in DOMAIN activeDialogs \cup {key} |->
                           IF k = key THEN refsOf(nextSession) ELSE activeDialogs[k]]
                    /\ pc' = [pc EXCEPT ![nextSession] = "talk"]
                    /\ closes' = closes
               ELSE UNCHANGED <<activeDialogs, eventChan, pc, closes>>]_vars

\* C12 witness: a worker that was not preempted has finished, its signal
\* closed its own channel and removed its entry, and a later trigger event
\* has started the session now registered under the same key.
C12_Witness ==
    \E s, t \in Sessions :
        /\ s < t /\ sessionKey[s] = sessionKey[t]
        /\ pc[s] = "done" /\ cancelledBy[s] = "self" /\ sent[s] = 1 /\ closes[s] = 1
        /\ sessionKey[t] \in DOMAIN activeDialogs
        /\ activeDialogs[sessionKey[t]] = refsOf(t)
        /\ pc[t] = "talk" /\ closes[t] = 0

\* C13: when processEvent handles an event that triggers no task and whose
\* key has a registry entry, the event is offered to that session's channel:
\* it is appended to the channel or dropped, dropped on the timeout only when
\* the channel is full, and nothing else changes: the registry, every
\* context, every channel's open or closed state and every worker are as
\* before, and the control loop goes on.
C13_ForwardingLeavesSession ==
    [][\A p \in PersonIds, r \in RoomIds :
          LET key == [personId |-> p, roomId |-> r]
              E == Event(p, r, FALSE, NoResource)
          IN  (key \in DOMAIN activeDialogs /\ HandleEvent(E))
              => LET s == activeDialogs[key].eventChan IN
                 /\ lastPush'.outcome \in {"pushed", "dialogDone", "timeout"}
                 /\ lastPush'.outcome = "pushed"
                       => eventChan' = [eventChan EXCEPT ![s] = Append(@, E)]
                 /\ lastPush'.outcome # "pushed" => eventChan' = eventChan
                 /\ lastPush'.outcome = "timeout"
                       => Len(eventChan[s]) = eventChanCapacity
                 /\ UNCHANGED <<activeDialogs, ctxDone, cancelledBy, chanClosed, closes,
                                pc, nextSession, ctl, crashedBy>>]_vars

\* C13 witness: an event forwarded to U1's session was dropped on the
\* timeout, its channel being full, and the session is registered, not
\* cancelled and not closed.
C13_Witness ==
    /\ lastPush.outcome = "timeout" /\ ~lastPush.fresh
    /\ activeDialogs[[personId |-> "U1", roomId |-> "R1"]] = refsOf(1)
    /\ Len(eventChan[1]) = eventChanCapacity
    /\ ~ctxDone[1] /\ ~chanClosed[1] /\ pc[1] = "talk"

\* C14: when processEvent handles an event that triggers no task and whose
\* key has no registry entry, the registry, every channel's contents, every
\* worker, every context and every channel's state are unchanged, no session
\* is created and pushEvent is not called.
C14_DropWithoutSession ==
    [][\A p \in PersonIds, r \in RoomIds :
          ([personId |-> p, roomId |-> r] \notin DOMAIN activeDialogs
           /\ HandleEvent(Event(p, r, FALSE, NoResource)))
          => UNCHANGED <<activeDialogs, eventChan, pc, ctxDone, cancelledBy, chanClosed,
                         closes, sessionKey, nextSession, lastPush, ctl, crashedBy>>]_vars

\* C14 witness: the control loop has taken MaxEvents events and pushEvent was
\* called for none of them: each was an event of U2, who has no session, and
\* triggered no task.
C14_Witness ==
    /\ nEvents = MaxEvents
    /\ DOMAIN activeDialogs = {[personId |-> "U1", roomId |-> "R1"]}
    /\ nextSession = 2
    /\ lastPush = NoPush

\* the session whose worker has read nothing and whose channel is full
Wedged(s) ==
    /\ pc[s] = "talk" /\ ~ctxDone[s] /\ ~chanClosed[s]
    /\ Len(eventChan[s]) = eventChanCapacity

occursIn(seq, x) == \E i \in 1..Len(seq) : seq[i] = x

\* x occurs in the sequence seq, after y
occursAfter(seq, y, x) == \E i, j \in 1..Len(seq) : i < j /\ seq[i] = y /\ seq[j] = x

\* C16: every event a session's Listen receives from its channel was pushed
\* to that session by pushEvent and to no other session, and was pushed
\* after the event Listen received before it (so the events received are a
\* subsequence of the events pushed, in order, none twice).
C16_PerSessionOrdering ==
    [][\A s \in Sessions :
          ListenReceive(s) =>
             LET x == received(s).Resource IN
             /\ occursIn(lastPush.pushed[s], x)
             /\ \A t \in Sessions \ {s} : ~occursIn(lastPush.pushed[t], x)
             /\ listen[s].got # <<>>
                   => occursAfter(lastPush.pushed[s], listen[s].got[1], x)]_vars

\* the listener's verdict is (nil response, non-nil clarification, nil error)
clarifies(verdict) == ~verdict.response /\ verdict.clarification /\ ~verdict.err

\* session s's Listen is at its select and the receive from its channel is
\* ready
CanReceive(s) == listen[s].at = "select" /\ (eventChan[s] # <<>> \/ chanClosed[s])

ReturnsListenerOutcome(s) ==
    \E verdict \in ListenerVerdicts, sendFails \in BOOLEAN :
        /\ ReceiveWith(s, verdict, sendFails)
        /\ \/ verdict.err /\ listen'[s].result = "listenerError"
           \/ verdict.response /\ ~verdict.err /\ listen'[s].result = "response"

\* the step is Listen of session s returning the error of a failed Send of
\* the clarification the listener yielded
ReturnsSendError(s) ==
    \E verdict \in ListenerVerdicts :
        /\ ReceiveWith(s, verdict, TRUE)
        /\ clarifies(verdict) /\ listen'[s].result = "sendError"

\* the step is Listen of session s returning ctx.Err(), its context done
ReturnsOnCancellation(s) == ctxDone[s] /\ listen'[s].result = "ctxError"

C20_OneSendPerClarification ==
    /\ [](\A s \in Sessions : CanReceive(s) =>
            \A verdict \in ListenerVerdicts, sendFails \in BOOLEAN :
            \A after \in {listenOn(listen[s], received(s), verdict, sendFails)} :
                /\ after.sends = IF clarifies(verdict) THEN 1 ELSE 0
                /\ (clarifies(verdict) /\ ~sendFails) => after.at = "select")
    /\ [][\A s \in Sessions :
            listen'[s].sends # listen[s].sends => ListenReceive(s)]_vars

\* C20 witness: one Listen waits for its next event after the Send of a
\* clarification, another after an event that needed none.
C20_Witness ==
    \E s, t \in Sessions :
        /\ listen[s].at = "select" /\ listen[s].got # <<>> /\ listen[s].sends = 1
        /\ listen[t].at = "select" /\ listen[t].got # <<>> /\ listen[t].sends = 0

\* the step is ListenAndTalk returning
Returns == bot.returned = "none" /\ bot'.returned # "none"

\* C17 as stated: ListenAndTalk returns only with its derived context done,
\* and returns the producer's error when the producer has failed, otherwise
\* the cause of the caller's cancellation.
C17_ReturnsCause ==
    [][Returns =>
          /\ outerDone
          /\ bot'.returned = IF bot.producer = "failed" THEN "producer" ELSE "caller"]_vars

\* C17 amended: ListenAndTalk returns only after run has returned with the
\* derived context done, and returns the cause of that context's first
\* cancellation: the producer's error when the producer failed with the
\* context not yet cancelled, the cause of the caller's cancellation when the
\* caller cancelled first, whatever the producer did afterwards.
C17_ReturnsFirstCause ==
    /\ [][Returns =>
            /\ outerDone /\ ctl = "returned"
            /\ bot'.returned = bot.cause /\ bot.cause \in {"caller", "producer"}]_vars
    /\ [][(~outerDone /\ outerDone') =>
            (bot'.cause = IF bot'.producer = "failed" THEN "producer" ELSE "caller")]_vars
    /\ [][outerDone => bot'.cause = bot.cause]_vars

\* C17 witness: ListenAndTalk has returned the caller's cause although the
\* producer failed, after the cancellation, before the return.
C17_Witness ==
    /\ bot.returned = "caller"
    /\ bot.producer = "failed"
    /\ ctl = "returned"

\* the step in which the Listen of OfferChoice receives the oldest buffered
\* event
Takes ==
    /\ messenger.at = "select"
    /\ messenger.incomingEvents # <<>>
    /\ messenger'.incomingEvents = Tail(messenger.incomingEvents)

\* the event carries a submission: an attachment action, as a value or behind
\* a pointer, whose inputs decode
isSubmission(event) ==
    /\ event.ResourceKind = AttachmentActions
    /\ event.Resource.type \in {"webexapi.AttachmentAction", "*webexapi.AttachmentAction"}
    /\ event.Resource.Inputs # noInputs

submitted(event) == event.Resource.Inputs[1]

\* C21: an OfferChoice that has returned without error has returned the Id
\* of an offered option; when it receives a submission whose value is no
\* offered Id it keeps waiting, without error, and when it receives a
\* submission whose value is an offered Id it returns that Id.
C21_OfferChoiceValidity ==
    /\ [](messenger.call = "OfferChoice" /\ messenger.at = "returned"
            /\ messenger.err = "nil"
              => isOneOf(messenger.optionId, messenger.options))
    /\ [][(Takes /\ isSubmission(Head(messenger.incomingEvents))) =>
             LET userChoice == submitted(Head(messenger.incomingEvents)) IN
             IF isOneOf(userChoice, messenger.options)
             THEN /\ messenger'.at = "returned"
                  /\ messenger'.optionId = userChoice
                  /\ messenger'.err = "nil"
             ELSE /\ messenger'.at = "select"
                  /\ messenger'.err = "nil"]_vars

\* C22: when the Listen under OfferChoice ends with an error (the listener's
\* on an undecodable payload, or the context's), OfferChoice returns with
\* that error and does not panic.
C22_ListenErrorsReturned ==
    /\ [](messenger.at # "panicked")
    /\ [][(messenger.at = "select"
             /\ messenger'.listen.result \in {"listenerError", "ctxError"})
            => /\ messenger'.at = "returned"
               /\ messenger'.err = messenger'.listen.result]_vars

\* C23: whenever the task can call Send, a Send of a message whose Format is
\* neither TextFormatMarkdown nor TextFormatHTML returns an error having made
\* no CreateMessage call, and no Send, whatever the message and whatever
\* CreateMessage returns, changes the messenger's channel.
C23_SendFailsFast ==
    inTask(messenger) =>
        \A message \in Message, created \in CreateOutcomes :
        \A after \in {Send(messenger, message, created)} :
            /\ message.Format \notin {TextFormatMarkdown, TextFormatHTML}
                  => after.err # "nil" /\ after.creates = 0
            /\ after.incomingEvents = messenger.incomingEvents
            /\ after.closed = messenger.closed

\* C23 witness: a Send has failed before any CreateMessage call while events
\* were waiting in the channel.
C23_Witness ==
    /\ messenger.call = "Send"
    /\ messenger.err = "unable to prepare a message creation request"
    /\ messenger.creates = 0
    /\ Len(messenger.incomingEvents) = MaxInbound

\* the sub-providers that have a task for the event
hits(subproviders, event) ==
    {i \in 1..Len(subproviders) : subproviders[i][event] # NilTask}

first(S) == CHOOSE i \in S : \A j \in S : i <= j

\* C24: for every list of sub-providers and every event, a built combined
\* provider returns from ProvideFor the task of the first sub-provider in
\* list order that has one, having called the sub-providers up to that one
\* and none after it, and returns nil exactly when no sub-provider has a
\* task, the empty list included.
C24_FirstNonNilTask ==
    provider.asked # "none" =>
        \A event \in {provider.asked} :
        \A found \in {provider} :
        \A H \in {hits(provider.subproviders, event)} :
            /\ H # {} => /\ found.triggeredTask = provider.subproviders[first(H)][event]
                         /\ found.consulted = first(H)
            /\ H = {} => found.consulted = Len(provider.subproviders)
            /\ found.triggeredTask = NilTask <=> H = {}

\* C24 witness: a combined provider of MaxProviders sub-providers, the first
\* of them without a task for the event asked for and the last with one, has
\* returned the task of the last one.
C24_Witness ==
    /\ provider.asked # "none"
    /\ Len(provider.subproviders) = MaxProviders
    /\ provider.subproviders[1][provider.asked] = NilTask
    /\ provider.triggeredTask # NilTask
    /\ provider.triggeredTask = provider.subproviders[MaxProviders][provider.asked]
    /\ provider.consulted = MaxProviders

\* C25: the worker of a session calls Talk once: a session's Talk begins only
\* in the step in which startDialog creates that session and registers it,
\* never begins again, and every step that creates a session begins its
\* Talk; so no Talk begins on an event that created no session.
C25_TalkOncePerSession ==
    [][\A s \in Sessions :
          /\ (pc[s] # "talk" /\ pc'[s] = "talk")
                => /\ pc[s] = "unborn"
                   /\ s = nextSession /\ nextSession' = s + 1
                   /\ nEvents' = nEvents + 1
                   /\ sessionKey'[s] \in DOMAIN activeDialogs'
                   /\ activeDialogs'[sessionKey'[s]] = refsOf(s)
          /\ pc[s] # "unborn" => pc'[s] # "unborn"
          /\ (s = nextSession /\ nextSession' # nextSession)
                => nextSession' = s + 1 /\ pc'[s] = "talk"]_vars

\* C25 witness: three events were taken, two of them created a session; the
\* first session's Talk has ended and its worker is done, and the second
\* session's Talk is running.
C25_Witness ==
    /\ nEvents = 3 /\ nextSession = 3
    /\ pc[1] = "done" /\ sent[1] = 1
    /\ pc[2] = "talk"
    /\ pc[3] = "unborn"

\* the values a client call returned that are non-nil
nonNil(r) ==
    (IF r.result THEN {"result"} ELSE {})
        \cup (IF r.webexErr # 0 THEN {"webexErr"} ELSE {})
        \cup (IF r.err THEN {"err"} ELSE {})

\* C26 as stated: every client call returns exactly one non-nil value among
\* (result, WebexError, error): only the error, with no HTTP request sent,
\* when the request fails local validation; only the WebexError carrying the
\* status code when the HTTP status is unsuccessful; only the result when
\* the status is successful.
C26_ExactlyOneOutcome ==
    client.calls < MaxCalls =>
        \A method \in ClientMethods, isValid \in BOOLEAN, response \in HTTPResponses :
        \A after \in {call(client, method, isValid, response)} :
            /\ Cardinality(nonNil(after.returned)) = 1
            /\ ~isValid => /\ nonNil(after.returned) = {"err"}
                           /\ after.requests = client.requests
            /\ (isValid /\ response.done /\ ~isSuccessful(response))
                  => /\ nonNil(after.returned) = {"webexErr"}
                     /\ after.returned.webexErr = response.StatusCode
            /\ (isValid /\ response.done /\ isSuccessful(response))
                  => nonNil(after.returned) = {"result"}

\* C26 amended: every client call returns exactly one non-nil value among
\* (result, WebexError, error): only the error, with no HTTP request sent,
\* when the request fails local validation; only the error when the request
\* cannot be executed or the body of the response does not decode; only the
\* WebexError carrying the status code when the status is unsuccessful and
\* the body decodes; only the result when the status is successful and the
\* body decodes.
C26_ExactlyOneOutcomeOfDecodedBody ==
    client.calls < MaxCalls =>
        \A method \in ClientMethods, isValid \in BOOLEAN, response \in HTTPResponses :
        \A after \in {call(client, method, isValid, response)} :
            /\ Cardinality(nonNil(after.returned)) = 1
            /\ ~isValid => /\ nonNil(after.returned) = {"err"}
                           /\ after.requests = client.requests
            /\ isValid => after.requests = client.requests + 1
            /\ (isValid /\ ~(response.done /\ response.decodes))
                  => nonNil(after.returned) = {"err"}
            /\ (isValid /\ response.done /\ response.decodes /\ ~isSuccessful(response))
                  => /\ nonNil(after.returned) = {"webexErr"}
                     /\ after.returned.webexErr = response.StatusCode
            /\ (isValid /\ response.done /\ response.decodes /\ isSuccessful(response))
                  => nonNil(after.returned) = {"result"}

\* C26 witness: the client has made MaxCalls calls and sent one HTTP request:
\* the last call, a CreateMessage, got the status 404 with a body that does
\* not decode, and returned only the error.
C26_Witness ==
    /\ client.calls = MaxCalls /\ client.requests = 1
    /\ client.method = "CreateMessage"
    /\ client.response = [done |-> TRUE, StatusCode |-> 404, decodes |-> FALSE]
    /\ nonNil(client.returned) = {"err"}

\* C27: whenever Listen receives an event, a listener result with a non-nil
\* error makes Listen return that error, with no Send, also when a response
\* or a clarification comes with it; and a result with a non-nil response
\* and no error makes Listen return the response without the Send of the
\* clarification that comes with it.
C27_ErrorThenResponseThenClarification ==
    \A s \in Sessions : CanReceive(s) =>
        \A verdict \in ListenerVerdicts, sendFails \in BOOLEAN :
        \A after \in {listenOn(listen[s], received(s), verdict, sendFails)} :
            /\ (verdict.err /\ (verdict.response \/ verdict.clarification))
                  => /\ after.at = "returned" /\ after.result = "listenerError"
                     /\ after.sends = 0
            /\ (~verdict.err /\ verdict.response /\ verdict.clarification)
                  => /\ after.at = "returned" /\ after.result = "response"
                     /\ after.sends = 0

\* C27 witness: of two sessions' Listen calls, one has returned the
\* listener's error on the first event and the other the listener's response
\* on the second, neither having sent anything for it.
C27_Witness ==
    \E s, t \in Sessions :
        /\ listen[s].result = "listenerError" /\ listen[s].got = <<1>>
        /\ listen[s].sends = 0
        /\ listen[t].result = "response" /\ listen[t].got = <<2>>
        /\ listen[t].sends = 0

\* C28: an OfferChoice makes at most one CreateMessage call, has made exactly
\* one when it waits, has consumed an event or has returned an option, and
\* makes none after it consumed an event; an OfferChoice whose prompt could
\* not be sent returns an error, not having consumed an event and leaving
\* the channel as it was.
C28_PromptOnceBeforeListening ==
    /\ [](messenger.call = "OfferChoice" =>
            /\ messenger.creates <= 1
            /\ (\/ messenger.consumed
                \/ messenger.at \in {"select", "panicked"}
                \/ messenger.at = "returned" /\ messenger.err = "nil")
                  => messenger.creates = 1
            /\ messenger.err = "unable to send the choice message"
                  => messenger.at = "returned" /\ ~messenger.consumed)
    /\ [](inTask(messenger) =>
            \A options \in OptionLists, prompted \in PromptOutcomes \ {"message"} :
            \A after \in {OfferChoice(messenger, options, prompted)} :
                /\ after.at = "returned" /\ after.err # "nil"
                /\ ~after.consumed
                /\ after.incomingEvents = messenger.incomingEvents)
    /\ [][(messenger'.call = "OfferChoice" /\ messenger'.creates # messenger.creates)
             => ~messenger'.consumed]_vars

\* C28 witness: an OfferChoice has sent its prompt once, has consumed an
\* event and waits for the next, which is in the channel.
C28_Witness ==
    /\ messenger.call = "OfferChoice" /\ messenger.at = "select"
    /\ messenger.creates = 1
    /\ messenger.consumed
    /\ messenger.incomingEvents # <<>>

\* C29: when the Listen of OfferChoice receives an event whose resource kind
\* is not attachmentActions, OfferChoice keeps waiting, without error and
\* without a Send, and the session's context and channel stay as they were.
C29_OtherKindsIgnored ==
    [][(Takes /\ Head(messenger.incomingEvents).ResourceKind # AttachmentActions)
          => /\ messenger'.at = "select" /\ messenger'.listen.at = "select"
             /\ messenger'.err = "nil"
             /\ messenger'.creates = messenger.creates /\ messenger'.listen.sends = 0
             /\ messenger'.ctxDone = messenger.ctxDone
             /\ messenger'.closed = messenger.closed]_vars

\* C29 witness: an OfferChoice waits after it received the event of a text
\* message, its context not cancelled.
C29_Witness ==
    /\ messenger.call = "OfferChoice" /\ messenger.at = "select"
    /\ messenger.listen.got = <<Resource("*webexapi.Message", noInputs)>>
    /\ messenger.err = "nil"
    /\ ~messenger.ctxDone

\* C30: when the Listen of OfferChoice receives the event the webhook handler
\* prepared of an attachment action whose submitted data is the Id of an
\* offered option, OfferChoice returns that Id.
C30_ProducedSubmissionReturned ==
    [][\A callback \in WebhookCallbacks :
          (/\ Takes
           /\ Head(messenger.incomingEvents) = prepareEvent(callback)
           /\ callback.Resource = AttachmentActions /\ callback.inputs # noInputs
           /\ isOneOf(callback.inputs[1], messenger.options))
          => /\ messenger'.at = "returned"
             /\ messenger'.optionId = callback.inputs[1]
             /\ messenger'.err = "nil"]_vars

\* C31: the registry changes only in a step of the control loop: in the
\* handling of an event or of a completion signal. An entry appears or is
\* replaced only in an event's step, as the entry startDialog makes of the
\* session it creates, and a key leaves the registry only in the step that
\* receives a completion signal, as the key of that signal; so no step of a
\* worker and no step of a Listen call changes the registry.
C31_RegistryOwnedByLoop ==
    [][/\ activeDialogs' # activeDialogs
            => \/ nEvents' = nEvents + 1
               \/ \E s \in Sessions : ReceivesSignalOf(s)
       /\ \A k \in DOMAIN activeDialogs' :
            (k \notin DOMAIN activeDialogs \/ activeDialogs'[k] # activeDialogs[k])
            => /\ nEvents' = nEvents + 1
               /\ nextSession' = nextSession + 1
               /\ activeDialogs'[k] = refsOf(nextSession)
       /\ \A k \in DOMAIN activeDialogs \ DOMAIN activeDialogs' :
            /\ \E s \in Sessions : ReceivesSignalOf(s)
            /\ lastSignal'.key = k]_vars

\* C31 witness: two sessions were registered and one entry was removed on a
\* completion signal, while the worker of the remaining session has received
\* an event in Listen and another worker has ended its Talk.
C31_Witness ==
    /\ nextSession = 3
    /\ Cardinality(DOMAIN activeDialogs) = 1
    /\ \E s, t \in Sessions :
          /\ sent[s] = 1 /\ pc[s] = "done"
          /\ sessionKey[t] \in DOMAIN activeDialogs
          /\ activeDialogs[sessionKey[t]] = refsOf(t)
          /\ listen[t].got # <<>>

C33_NoZeroEventToListener ==
    \A s \in Sessions : listen[s].got # <<zeroEvent.Resource>>

\* C34: whenever the control loop receives a completion signal, the key of
\* the signal has an entry in the registry, processCompletionSignal closes
\* no nil channel, and the control loop does not panic.
C34_SignalledKeyRegistered ==
    [][\A s \in Sessions :
          ReceivesSignalOf(s)
          => /\ sessionKey[s] \in DOMAIN activeDialogs
             /\ lookup(Cur, sessionKey[s]).eventChan # Nil
             /\ ctl' # "panicked"]_vars

\* C35: every worker whose Talk has ended terminates eventually, unless the
\* process ends first: none waits forever to send its completion signal
\* after the control loop has returned.
C35_WorkersTerminate ==
    \A s \in Sessions :
        (pc[s] \in {"cancel", "send"}) ~> (pc[s] = "done" \/ crashed)

\* seq is an initial part of the sequence longer
isPrefix(seq, longer) ==
    Len(seq) <= Len(longer) /\ \A i \in 1..Len(seq) : longer[i] = seq[i]

signedWith(webhookSecret, request) ==
    /\ request.signature.encoded = "hex"
    /\ request.signature.mac.key = webhookSecret
    /\ request.signature.mac.body = request.body

\* the ServeHTTP call has answered with status, without an event placed
Answers(after, status) ==
    after.at = "done" /\ after.StatusCode = status /\ after.placed = 0

\* C37: ServeHTTP answers 401 to a request that fails authentication, which
\* with a secret configured is every request whose signature is missing,
\* malformed or not the MAC of its body under the secret, and prepares no
\* event for it; else 400 to a body that is no callback; else the status of
\* the failed preparation (400, 500 or 424); else 200 to an event that some
\* filter rejects; and goes on to enqueue with every other request and with
\* no request else, the channel as it was. The outgoing channel gets the
\* event of a request only in a step of its enqueue, which ends with 202 and
\* the event placed, or with 429 without it.
C37_OnlyVerifiedEventsEnqueued ==
    /\ []((webhook.built /\ webhook.request.at \in {"idle", "done"}) =>
            \A request \in HTTPRequests, fetched \in FetchOutcomes :
            \A after \in {serve(webhook, request, fetched)} :
                LET passes == webhook.webhookSecret = ""
                                 \/ signedWith(webhook.webhookSecret, request)
                    body == request.body
                    fetching == body.Resource \in {Messages, AttachmentActions}
                    status == IF ~body.hasId THEN StatusBadRequest
                              ELSE IF fetching /\ fetched = "err"
                              THEN StatusInternalServerError
                              ELSE IF fetching /\ fetched = "webexErr"
                              THEN StatusFailedDependency ELSE 0
                    accepted == \A i \in 1..Len(webhook.filters) :
                                   webhook.filters[i][body.Resource]
                IN  IF ~passes THEN Answers(after, StatusUnauthorized) /\ after.event = <<>>
                    ELSE IF ~body.decodes THEN Answers(after, StatusBadRequest)
                    ELSE IF status # 0 THEN Answers(after, status) /\ after.event = <<>>
                    ELSE IF ~accepted THEN Answers(after, StatusOK)
                    ELSE /\ after.at = "enqueue" /\ after.StatusCode = 0
                         /\ after.placed = 0
                         /\ after.event[1].ResourceKind = body.Resource)
    /\ [][webhook'.served # webhook.served
            => webhook'.outgoingEvents = webhook.outgoingEvents]_vars
    /\ [][webhook'.request.placed = webhook.request.placed + 1
            => /\ webhook.request.at = "enqueue"
               /\ webhook'.request.StatusCode = StatusAccepted
               /\ webhook'.outgoingEvents =
                     Append(webhook.outgoingEvents, webhook.request.event[1])]_vars
    /\ [](webhook.request.at = "done" =>
            /\ webhook.request.StatusCode \in
                 {StatusUnauthorized, StatusBadRequest, StatusInternalServerError,
                  StatusFailedDependency, StatusOK, StatusAccepted, StatusTooManyRequests}
            /\ webhook.request.StatusCode = StatusAccepted <=> webhook.request.placed = 1
            /\ webhook.request.StatusCode = StatusTooManyRequests
                  => webhook.request.placed = 0 /\ webhook.request.event # <<>>)

\* C37 witness: a handler with a secret and two filters has answered two
\* requests, the second with 202, its event being the newest in the channel.
C37_Witness ==
    /\ webhook.webhookSecret # "" /\ Len(webhook.filters) = 2
    /\ webhook.served = 2
    /\ webhook.request.at = "done" /\ webhook.request.StatusCode = StatusAccepted
    /\ webhook.outgoingEvents # <<>>
    /\ webhook.outgoingEvents[Len(webhook.outgoingEvents)] = webhook.request.event[1]

\* C38: enqueue returns true exactly in the step in which its send places the
\* event on the outgoing channel, which has room then; it returns false only
\* with the request's context done and the event not placed; until it returns
\* the event is not placed, and with the channel full and the context live it
\* does not return; so no event is placed twice.
C38_EnqueuePlacesOnce ==
    /\ [](webhook.request.placed <= 1)
    /\ [](webhook.request.at = "enqueue"
            => webhook.request.placed = 0 /\ webhook.request.StatusCode = 0)
    /\ [][(webhook.request.at = "enqueue" /\ webhook'.request.at = "done")
            => \/ /\ webhook'.request.StatusCode = StatusAccepted
                  /\ webhook'.request.placed = 1
                  /\ Len(webhook.outgoingEvents) < eventChannelBufferSize
                  /\ webhook'.outgoingEvents =
                        Append(webhook.outgoingEvents, webhook.request.event[1])
               \/ /\ webhook'.request.StatusCode = StatusTooManyRequests
                  /\ webhook.request.ctxDone
                  /\ webhook'.request.placed = 0
                  /\ webhook'.outgoingEvents = webhook.outgoingEvents]_vars
    /\ [][webhook'.request.placed = webhook.request.placed + 1
            => webhook'.request.at = "done"]_vars
    /\ [][(/\ webhook.request.at = "enqueue"
           /\ Len(webhook.outgoingEvents) = eventChannelBufferSize
           /\ ~webhook.request.ctxDone)
            => webhook'.request.at = "enqueue"]_vars

\* C38 witness: enqueue slept on the full channel, the controller took an
\* event and the request's context was cancelled, and of the two ready cases
\* the send was taken: the event is placed once and the answer is 202.
C38_Witness ==
    /\ webhook.request.slept /\ webhook.request.ctxDone
    /\ webhook.request.at = "done" /\ webhook.request.StatusCode = StatusAccepted
    /\ webhook.request.placed = 1
    /\ Len(webhook.outgoingEvents) = eventChannelBufferSize
    /\ webhook.outgoingEvents[eventChannelBufferSize] = webhook.request.event[1]

\* the filters of the handler that return false for the events of the kind
rejecting(kind) == {i \in 1..Len(webhook.filters) : ~webhook.filters[i][kind]}

\* what matchesFilters is to return for the events of the kind: true when no
\* filter rejects them, having called every filter, and false otherwise,
\* having called the filters up to the first that rejects them
expected(kind) ==
    IF rejecting(kind) = {}
    THEN [matches |-> TRUE, called |-> Len(webhook.filters)]
    ELSE [matches |-> FALSE,
          called |-> CHOOSE i \in rejecting(kind) : \A j \in rejecting(kind) : i <= j]

\* C39: for the events of every kind matchesFilters returns true exactly when
\* every filter of the handler returns true for them, with no filter too, and
\* calls the filters in their order up to the first that returns false; and
\* the request ServeHTTP has prepared an event for had its filters called so,
\* and was answered 200 exactly when one of them returned false.
C39_AllFiltersInOrder ==
    /\ webhook.built =>
          \A kind \in ResourceKinds :
              matchesFilters(webhook.filters,
                             prepareEvent([Resource |-> kind, inputs |-> noInputs]))
                 = expected(kind)
    /\ webhook.request.event # <<>> =>
          \A kind \in {webhook.request.event[1].ResourceKind} :
              /\ webhook.request.called = expected(kind).called
              /\ webhook.request.StatusCode = StatusOK <=> ~expected(kind).matches

\* C39 witness: the handler has two filters, the first of which returned
\* false for the event of the request and the second of which, not called,
\* returns true for it; the request was answered 200.
C39_Witness ==
    /\ Len(webhook.filters) = 2
    /\ webhook.request.StatusCode = StatusOK
    /\ webhook.request.called = 1
    /\ webhook.filters[2][webhook.request.event[1].ResourceKind]

====
